---- MODULE Spec2Model ----
(***************************************************************************)
(* A model of the remote-process engine of elfview/ulpatch:                *)
(*   - task_syscall and its wrappers (src/src/utils/task.c:1286-1605),     *)
(*   - open_task / update_task_vmas / free_task and the work directory     *)
(*     ROOT_DIR/<pid> (src/src/utils/task.c:716-1090),                     *)
(*   - the VMA tree and find_vma_span_area (src/src/utils/task.c:73-175).  *)
(*   - wait_for_stop, task_open, vma_peek_phdr and the symbol tree         *)
(*     (src/src/utils/task.c:193-714, 1286-1321, 1500-1542),               *)
(*   - the controller operations of uftrace and ultask, the x86-64         *)
(*     encoders and the patch tests, init_patch and delete_patch.          *)
(* Each part has its own specification over its own variables; the other   *)
(* variables stay at their initial values.                                 *)
(***************************************************************************)
EXTENDS Integers, Sequences, FiniteSets, TLC

\* ------------------------------------------------------------------ bounds

\* register values the target may hold when it is stopped: 0..MaxReg
MaxReg == 1
\* number of VMAs in the tree of the span search
MaxVmas == 3
\* number of wrapper calls made on the stopped target
MaxCalls == 1
\* most lines of one /proc/PID/maps content
MaxLines == 3
\* wait statuses other than the SIGSTOP stop one task_attach goes through
MaxWaits == 2
\* size in pages of the file mmap_object and mmap_a_file map
ObjLen == 2

\* ------------------------------------------------------- program constants

\* x86-64 syscall numbers used by the wrappers
NR_open == 2
NR_close == 3
NR_fstat == 5
NR_mmap == 9
NR_munmap == 11
NR_msync == 26
NR_getpid == 39
NR_ftruncate == 77
NR_prctl == 157

\* the errno wait_for_stop tests for
ESRCH == 3
\* (unsigned long)MAP_FAILED read as a signed value
MAP_FAILED == -1

\* the target's pid, as in the spec's getpid scenario
TargetPid == 1234

VARIABLES
    \* ---- task_syscall: the target
    tregs,      \* the target's register set (meaningful while it is stopped)
    tmem,       \* the bytes at libc_vma->start (sizeof(__syscall) of them)
    executed,   \* what the target ran on the last PTRACE_CONT
    \* ---- task_syscall: the controller's locals
    pc,         \* position inside task_syscall / the wrapper
    old_regs, regs, syscall_regs, orig_code, ret, res,
    installed,  \* PTRACE_SETREGS of the new register set succeeded
    path,       \* the return path taken by task_syscall
    log,        \* the steps issued so far, with their outcome
    pre_regs, pre_mem,   \* the target's registers and scratch bytes at entry
    \* ---- the wrapper around task_syscall
    req,        \* the syscall number and arguments task_syscall was called with
    wrapper, plan, sys_ret, sys_res, wret,
    calls,      \* wrapper calls made so far
    \* ---- open_task / free_task / update_task_vmas
    maps,       \* content of /proc/PID/maps (a sequence of line kinds)
    alive,      \* the target exists (its /proc/PID files can be opened)
    task,       \* per controller: its struct task for the pid
    dir,        \* the work directory ROOT_DIR/<pid> on the shared file system
    ev,         \* the last call made and what it did
    \* ---- find_vma_span_area
    vmas_rb,    \* the VMA tree, in address order
    span,       \* the last find_vma_span_area call and its result
    \* ---- read_task_vmas on a task's tree, task_vma_symbol_value
    vmas,       \* task->vmas_rb with each VMA's leader and sibling list
    rd,         \* the last read_task_vmas: the content read and its result
    sym,        \* the last task_vma_symbol_value call and its result
    \* ---- task_attach and the controller operations around it
    traced,     \* the target under ptrace: "no", "running" or "stopped"
    dead,       \* the target has exited or was killed
    apc,        \* position inside task_attach
    astatus,    \* the wait status task_attach got last
    aret,       \* what task_attach returned
    alog,       \* the ptrace and waitpid calls of task_attach, with outcome
    waits,      \* waitpid calls of this task_attach that did not end it
    cop,        \* the controller operation in progress
    cpc,        \* its position
    cret,       \* its local ret, returned at the end
    map_fd,     \* its local map_fd
    rfd_open,   \* the target holds a descriptor this operation opened
    clog,       \* what the operation did to the target so far
    obj_addr,   \* uftrace's global obj_target_task_map_addr
    tmaps,      \* the mappings the operations made in the target
    cmapped,    \* the kernel mapped the file during this operation
    unmap,      \* the last task_munmap of an operation
    wres,       \* what memcpy_to_task returned to the --jmp branch
    \* ---- the x86-64 encoders
    enc,        \* the last application of an encoder and what it gave
    \* ---- the patch tests on their own process
    layout,     \* where the test program is loaded
    text,       \* the bytes of try_to_wake_up
    ret_TTWU,   \* the flag my_direct_func sets
    ptest,      \* the test that runs, or ran last
    ppc,        \* its position
    p_orig_code,  \* its local orig_code
    p_new,      \* what its local new points to
    test_ret,   \* what it returns
    pdone,      \* the place in the file of the last test begun
    pcall,      \* the last call of try_to_wake_up and what it ran
    pre_text,   \* the bytes of try_to_wake_up before the test's rewrite
    psteps,     \* how the save, the write and the restore went
    \* ---- wait_for_stop, statement by statement
    wpc,        \* where wait_for_stop stands: "cont", "waitpid", "done"
    wstatus,    \* its local status: the signal the next PTRACE_CONT delivers
    wsret,      \* what it returned
    wlog,       \* the ptrace and waitpid calls it made, with their outcomes
    texists,    \* the target process still exists
    wstops,     \* stops with a signal other than SIGSTOP, SIGTRAP, SIGSEGV
    \* ---- task_open
    oin,        \* the arguments of the call: pathname and flags
    opc,        \* where task_open stands
    opathname,  \* its pathname, which the branch at line 1509 may replace
    oaddr,      \* remote_fileaddr
    olen,       \* remote_filename_len
    omem,       \* the string the target holds at remote_fileaddr
    oresult,    \* the local result
    olog,       \* the remote syscalls made, in order
    oret,       \* what task_open returned
    \* ---- vma_peek_phdr
    pk_vma,     \* the VMA it is called on and the ELF image at its start
    pk_pc,      \* "call" before, "done" after
    pk_read,    \* what the two memcpy_from_task calls returned
    pk_out,     \* the fields it set and what it returned
    \* ---- the symbol tree of a task
    sy_vmas,    \* the task's VMAs that hold an ELF image, in the order of the list
    sy_i,       \* how many of them vma_load_all_symbols has been called on
    sy_tree,    \* task->vma_symbols
    sy_log,     \* the symbols handed to task_vma_link_symbol, in order
    \* ---- init_patch and delete_patch on a task opened with FTO_PROC
    ld_pc,      \* where the controller stands
    ld_dir,     \* the work directory ROOT_DIR/<pid>
    ld_staged,  \* the patch-XXXXXX files in its map_files
    ld_maps,    \* the patch mappings of the target
    ld_infos,   \* the load-infos registered in the task
    ld_rets,    \* what the calls of init_patch returned
    ld_log,     \* the task_munmap calls of delete_patch, in order
    ld_hist,    \* the load-infos ever registered, and whether a step failed
    ld_status   \* the wait status of the target after the trigger

sysvars == <<tregs, tmem, executed, pc, old_regs, regs, syscall_regs, orig_code,
             ret, res, installed, path, log, pre_regs, pre_mem, req,
             wrapper, plan, sys_ret, sys_res, wret, calls>>
taskvars == <<maps, alive, task, dir, ev>>
spanvars == <<vmas_rb, span>>
vmavars == <<vmas, rd, sym>>
ctlmaps == <<obj_addr, tmaps, cmapped, unmap, wres>>
ctlvars == <<traced, dead, apc, astatus, aret, alog, waits, cop, cpc, cret,
             map_fd, rfd_open, clog, ctlmaps>>
encvars == <<enc>>
patchvars == <<layout, text, ret_TTWU, ptest, ppc, p_orig_code, p_new,
               test_ret, pdone, pcall, pre_text, psteps>>
waitvars == <<wpc, wstatus, wsret, wlog, texists, wstops>>
\* the parts that follow the patch tests
openvars == <<oin, opc, opathname, oaddr, olen, omem, oresult, olog, oret>>
peekvars == <<pk_vma, pk_pc, pk_read, pk_out>>
symvars == <<sy_vmas, sy_i, sy_tree, sy_log>>
loadvars == <<ld_pc, ld_dir, ld_staged, ld_maps, ld_infos, ld_rets, ld_log,
              ld_hist, ld_status>>
morevars == <<waitvars, openvars, peekvars, symvars, loadvars>>
oldvars == <<sysvars, taskvars, spanvars, vmavars, ctlvars, encvars, patchvars>>
vars == <<oldvars, morevars>>
\* what the actions of one part leave alone
notsys == <<taskvars, spanvars, vmavars, ctlvars, encvars, patchvars,
             morevars>>
nottask == <<sysvars, spanvars, vmavars, ctlvars, encvars, patchvars,
              morevars>>
notspan == <<sysvars, taskvars, vmavars, ctlvars, encvars, patchvars,
              morevars>>
notvma == <<sysvars, taskvars, spanvars, ctlvars, encvars, patchvars,
             morevars>>
notctl == <<sysvars, taskvars, spanvars, vmavars, encvars, patchvars,
             morevars>>
notenc == <<sysvars, taskvars, spanvars, vmavars, ctlvars, patchvars,
             morevars>>
notpatch == <<sysvars, taskvars, spanvars, vmavars, ctlvars, encvars,
               morevars>>
notwait == <<oldvars, openvars, peekvars, symvars, loadvars>>
notopen == <<oldvars, waitvars, peekvars, symvars, loadvars>>
notpeek == <<oldvars, waitvars, openvars, symvars, loadvars>>
notsym == <<oldvars, waitvars, openvars, peekvars, loadvars>>
notload == <<oldvars, waitvars, openvars, peekvars, symvars>>

\* =================================================================
\*  Part 1: task_syscall
\* =================================================================

\* the scratch bytes at libc_vma->start: SYSCALL_INSTR, or one of two other
\* byte patterns of libc's text
SyscallInstr == "syscall"
Bytes == {"syscall", "text1", "text2"}

RegVals == 0..MaxReg

\* what a local that was never written may hold
Garbage == {-12, 0, 4}

\* the result the kernel gives the target for syscall nr: an error (-12 is
\* -ENOMEM), zero, or a positive value (a descriptor, an address)
KernelResults(nr) == IF nr = NR_getpid THEN {TargetPid} ELSE {-12, 0, 4}

Nrs == {NR_open, NR_close, NR_fstat, NR_mmap, NR_munmap, NR_msync, NR_getpid,
        NR_ftruncate, NR_prctl}

\* struct user_regs_struct: ip, the syscall number / return register (rax),
\* the argument registers, and the other general registers copy_regs copies
Regs(ip, ax, args, callee) ==
    [ip |-> ip, ax |-> ax, args |-> args, callee |-> callee]

\* SYSCALL_REGS_PREPARE: number and arguments set, everything else unwritten
SYSCALL_REGS_PREPARE(nr, args, junk) == Regs("junk", nr, args, junk)

\* copy_regs: the general registers of src, not ip
copy_regs(dst, src) ==
    [dst EXCEPT !.ax = src.ax, !.args = src.args, !.callee = src.callee]

\* SYSCALL_RET
SYSCALL_RET(r) == r.ax

NoRegs == Regs("none", 0, 0, 0)
NoExec == [kind |-> "none", nr |-> 0, args |-> 0, result |-> 0]

\* the syscalls a wrapper issues through task_syscall, in order
\* (task_open and task_fstat allocate and free a remote buffer around theirs)
Plan(w) ==
    CASE w = "task_syscall"   -> <<NR_getpid>>
      [] w = "task_mmap"      -> <<NR_mmap>>
      [] w = "task_munmap"    -> <<NR_munmap>>
      [] w = "task_msync"     -> <<NR_msync>>
      [] w = "task_malloc"    -> <<NR_mmap>>
      [] w = "task_open"      -> <<NR_mmap, NR_open, NR_munmap>>
      [] w = "task_close"     -> <<NR_close>>
      [] w = "task_ftruncate" -> <<NR_ftruncate>>
      [] w = "task_fstat"     -> <<NR_mmap, NR_fstat, NR_munmap>>
      [] w = "task_prctl"     -> <<NR_prctl>>

Wrappers == {"task_syscall", "task_mmap", "task_munmap", "task_msync",
             "task_malloc", "task_open", "task_close", "task_ftruncate",
             "task_fstat", "task_prctl"}

\* the position in Plan(w) of the syscall whose outcome the wrapper returns
Decisive(w) == IF w \in {"task_open", "task_fstat"} THEN 2 ELSE 1

\* the value of an unsigned long result when the wrapper reads it:
\* *res as written by task_syscall, or whatever the unwritten local holds
ResultValues(r) == IF r = <<>> THEN Garbage ELSE {r[1]}

\* task_mmap: 0 when task_syscall failed, else the result
task_mmap(sret, result) == IF sret < 0 THEN 0 ELSE result

\* task_munmap, task_msync: -1 when task_syscall failed, else the result
task_munmap(sret, result) == IF sret < 0 THEN -1 ELSE result
task_msync(sret, result) == IF sret < 0 THEN -1 ELSE result

\* task_malloc: task_mmap, with MAP_FAILED turned into 0
task_malloc(sret, result) ==
    LET remote_addr == task_mmap(sret, result)
    IN  IF remote_addr = MAP_FAILED THEN 0 ELSE remote_addr

\* task_open: the result, whatever task_syscall returned
task_open(sret, result) == result

\* task_close, task_ftruncate, task_prctl: 0 when task_syscall failed
task_close(sret, result) == IF sret < 0 THEN 0 ELSE result
task_ftruncate(sret, result) == IF sret < 0 THEN 0 ELSE result
task_prctl(sret, result) == IF sret < 0 THEN 0 ELSE result

\* task_fstat: what task_syscall returned, whatever the result
task_fstat(sret, result) == sret

\* the wrapper's return value from its decisive task_syscall
WrapperReturn(w, sret, result) ==
    CASE w = "task_syscall"   -> sret
      [] w = "task_mmap"      -> task_mmap(sret, result)
      [] w = "task_munmap"    -> task_munmap(sret, result)
      [] w = "task_msync"     -> task_msync(sret, result)
      [] w = "task_malloc"    -> task_malloc(sret, result)
      [] w = "task_open"      -> task_open(sret, result)
      [] w = "task_close"     -> task_close(sret, result)
      [] w = "task_ftruncate" -> task_ftruncate(sret, result)
      [] w = "task_fstat"     -> task_fstat(sret, result)
      [] w = "task_prctl"     -> task_prctl(sret, result)

InitSys ==
    /\ tregs \in {Regs("user", 0, b, c) : b \in RegVals, c \in RegVals}
    /\ tmem \in {"text1", "text2"}
    /\ executed = NoExec
    /\ pc = "idle"
    /\ old_regs = NoRegs /\ regs = NoRegs /\ syscall_regs = NoRegs
    /\ orig_code = "text1"
    /\ ret = 0 /\ res = <<>>
    /\ installed = FALSE /\ path = "none" /\ log = <<>>
    /\ pre_regs = NoRegs /\ pre_mem = "text1"
    /\ req = [nr |-> 0, args |-> 0]
    /\ wrapper = "none" /\ plan = <<>>
    /\ sys_ret = 0 /\ sys_res = <<>> /\ wret = 0
    /\ calls = 0

\* a wrapper is called (the target is ptrace-stopped)
WrapperCall ==
    /\ UNCHANGED notsys
    /\ pc \in {"idle", "wreturned"}
    /\ calls < MaxCalls
    /\ calls' = calls + 1
    /\ \E w \in Wrappers :
         /\ wrapper' = w
         /\ plan' = Plan(w)
    /\ pc' = "enter"
    /\ sys_ret' = 0 /\ sys_res' = <<>> /\ wret' = 0
    /\ UNCHANGED <<tregs, tmem, executed, old_regs, regs, syscall_regs, orig_code,
                   ret, res, installed, path, log, pre_regs, pre_mem, req>>

\* task_syscall, lines 1328-1344: the locals; *res is the caller's unwritten
\* local, old_regs, regs and orig_code are not yet written
task_syscall_enter ==
    /\ UNCHANGED notsys
    /\ pc = "enter"
    /\ \E a \in RegVals, junk \in RegVals :
         /\ req' = [nr |-> Head(plan), args |-> a]
         /\ syscall_regs' = SYSCALL_REGS_PREPARE(Head(plan), a, junk)
    /\ pre_regs' = tregs /\ pre_mem' = tmem
    /\ old_regs' = NoRegs /\ regs' = NoRegs
    /\ res' = <<>> /\ ret' = 0
    /\ installed' = FALSE /\ path' = "none" /\ log' = <<>>
    /\ executed' = NoExec
    /\ pc' = "getregs"
    /\ UNCHANGED <<tregs, tmem, orig_code, wrapper, plan, sys_ret, sys_res, wret, calls>>

\* lines 1346-1358: PTRACE_GETREGS into old_regs; a failure returns at once
task_syscall_getregs ==
    /\ UNCHANGED notsys
    /\ pc = "getregs"
    /\ \E ok \in BOOLEAN :
         /\ log' = Append(log, <<"save_regs", ok>>)
         /\ IF ok
            THEN /\ old_regs' = tregs
                 /\ pc' = "save_scratch"
                 /\ UNCHANGED <<ret, path>>
            ELSE /\ ret' = -ESRCH
                 /\ path' = "getregs_fail"
                 /\ pc' = "ret"
                 /\ UNCHANGED old_regs
    /\ UNCHANGED <<tregs, tmem, executed, regs, syscall_regs, orig_code, res,
                   installed, pre_regs, pre_mem, req, wrapper, plan, sys_ret,
                   sys_res, wret, calls>>

\* line 1360: memcpy_from_task into orig_code, its result not looked at; when
\* the read fails orig_code keeps whatever the stack held
task_syscall_save_scratch ==
    /\ UNCHANGED notsys
    /\ pc = "save_scratch"
    /\ \E ok \in BOOLEAN :
         /\ log' = Append(log, <<"save_scratch", ok>>)
         /\ IF ok THEN orig_code' = tmem ELSE orig_code' \in Bytes
    /\ pc' = "write_syscall"
    /\ UNCHANGED <<tregs, tmem, executed, old_regs, regs, syscall_regs, ret, res,
                   installed, path, pre_regs, pre_mem, req, wrapper, plan,
                   sys_ret, sys_res, wret, calls>>

\* lines 1362-1368: memcpy_to_task of the syscall instruction, its result not
\* looked at; then regs = old_regs, SYSCALL_IP(regs) = libc_base, copy_regs
task_syscall_write_syscall ==
    /\ UNCHANGED notsys
    /\ pc = "write_syscall"
    /\ \E ok \in BOOLEAN :
         /\ log' = Append(log, <<"write_syscall", ok>>)
         /\ tmem' = IF ok THEN SyscallInstr ELSE tmem
    /\ regs' = copy_regs([old_regs EXCEPT !.ip = "libc_base"], syscall_regs)
    /\ pc' = "setregs"
    /\ UNCHANGED <<tregs, executed, old_regs, syscall_regs, orig_code, ret, res,
                   installed, path, pre_regs, pre_mem, req, wrapper, plan,
                   sys_ret, sys_res, wret, calls>>

\* lines 1370-1383: PTRACE_SETREGS of the new register set
task_syscall_setregs ==
    /\ UNCHANGED notsys
    /\ pc = "setregs"
    /\ \E ok \in BOOLEAN :
         /\ log' = Append(log, <<"set_regs", ok>>)
         /\ IF ok
            THEN /\ tregs' = regs
                 /\ installed' = TRUE
                 /\ pc' = "wait"
                 /\ UNCHANGED <<ret, path>>
            ELSE /\ ret' = -ESRCH
                 /\ path' = "setregs_fail"
                 /\ pc' = "poke_back"
                 /\ UNCHANGED <<tregs, installed>>
    /\ UNCHANGED <<tmem, executed, old_regs, regs, syscall_regs, orig_code, res,
                   pre_regs, pre_mem, req, wrapper, plan, sys_ret, sys_res, wret, calls>>

\* what the target does when PTRACE_CONT lets it run with ip = libc_base: the
\* syscall instruction there makes the kernel run syscall rax with the
\* argument registers; any other bytes there are libc's own code
TargetRuns(r, mem) ==
    IF mem = SyscallInstr
    THEN {[regs |-> [r EXCEPT !.ax = k, !.ip = "after"],
           exec |-> [kind |-> "syscall", nr |-> r.ax, args |-> r.args, result |-> k]] :
            k \in KernelResults(r.ax)}
    ELSE {[regs |-> [r EXCEPT !.ax = g, !.ip = "elsewhere"],
           exec |-> [kind |-> "other", nr |-> 0, args |-> 0, result |-> g]] :
            g \in Garbage}

\* wait_for_stop, lines 1286-1321: 0 after a stop with SIGSTOP or SIGTRAP, -1
\* when PTRACE_CONT or waitpid fails or the target stops with SIGSEGV
wait_for_stop(stop) == IF stop = "trap" THEN 0 ELSE -1

\* lines 1385-1389: wait_for_stop
task_syscall_wait ==
    /\ UNCHANGED notsys
    /\ pc = "wait"
    /\ \/ \* the first PTRACE_CONT fails: the target did not run
          /\ log' = Append(log, <<"cont", FALSE>>)
          /\ ret' = wait_for_stop("contfail")
          /\ path' = "wait_fail"
          /\ pc' = "poke_back"
          /\ UNCHANGED <<tregs, executed>>
       \/ \* the target runs and the wait ends with a stop or a failure
          \E run \in TargetRuns(tregs, tmem), stop \in {"trap", "segv", "waitfail"} :
             /\ tregs' = run.regs
             /\ executed' = run.exec
             /\ log' = log \o <<(<<"cont", TRUE>>), (<<"wait_stop", stop = "trap">>)>>
             /\ IF wait_for_stop(stop) < 0
                THEN /\ ret' = wait_for_stop(stop)
                     /\ path' = "wait_fail"
                     /\ pc' = "poke_back"
                ELSE /\ ret' = wait_for_stop(stop)
                     /\ pc' = "getregs2"
                     /\ UNCHANGED path
    /\ UNCHANGED <<tmem, old_regs, regs, syscall_regs, orig_code, res, installed,
                   pre_regs, pre_mem, req, wrapper, plan, sys_ret, sys_res, wret, calls>>

\* lines 1391-1404: PTRACE_GETREGS into regs after the stop
task_syscall_getregs2 ==
    /\ UNCHANGED notsys
    /\ pc = "getregs2"
    /\ \E ok \in BOOLEAN :
         /\ log' = Append(log, <<"get_result", ok>>)
         /\ IF ok
            THEN /\ regs' = tregs
                 /\ pc' = "restore_regs"
                 /\ UNCHANGED <<ret, path>>
            ELSE /\ ret' = -ESRCH
                 /\ path' = "getregs2_fail"
                 /\ pc' = "poke_back"
                 /\ UNCHANGED regs
    /\ UNCHANGED <<tregs, tmem, executed, old_regs, syscall_regs, orig_code, res,
                   installed, pre_regs, pre_mem, req, wrapper, plan, sys_ret,
                   sys_res, wret, calls>>

\* lines 1406-1424: PTRACE_SETREGS of old_regs, then *res = SYSCALL_RET
task_syscall_restore_regs ==
    /\ UNCHANGED notsys
    /\ pc = "restore_regs"
    /\ \E ok \in BOOLEAN :
         /\ log' = Append(log, <<"restore_regs", ok>>)
         /\ IF ok
            THEN /\ tregs' = old_regs
                 /\ ret' = 0
                 /\ syscall_regs' = regs
                 /\ res' = <<SYSCALL_RET(regs)>>
                 /\ path' = "ok"
            ELSE /\ ret' = -ESRCH
                 /\ path' = "restore_fail"
                 /\ UNCHANGED <<tregs, syscall_regs, res>>
    /\ pc' = "poke_back"
    /\ UNCHANGED <<tmem, executed, old_regs, regs, orig_code, installed,
                   pre_regs, pre_mem, req, wrapper, plan, sys_ret, sys_res, wret, calls>>

\* lines 1426-1428, poke_back: memcpy_to_task of orig_code, its result not
\* looked at; return ret
task_syscall_poke_back ==
    /\ UNCHANGED notsys
    /\ pc = "poke_back"
    /\ \E ok \in BOOLEAN :
         /\ log' = Append(log, <<"restore_scratch", ok>>)
         /\ tmem' = IF ok THEN orig_code ELSE tmem
    /\ pc' = "ret"
    /\ UNCHANGED <<tregs, executed, old_regs, regs, syscall_regs, orig_code, ret,
                   res, installed, path, pre_regs, pre_mem, req, wrapper, plan,
                   sys_ret, sys_res, wret, calls>>

\* task_syscall has returned to the wrapper, which keeps the outcome of its
\* decisive call and either issues its next syscall or returns
WrapperNext ==
    /\ UNCHANGED notsys
    /\ pc = "ret"
    /\ LET idx  == Len(Plan(wrapper)) - Len(plan) + 1
           sret == IF idx = Decisive(wrapper) THEN ret ELSE sys_ret
           sres == IF idx = Decisive(wrapper) THEN res ELSE sys_res
       IN  /\ sys_ret' = sret
           /\ sys_res' = sres
           /\ plan' = Tail(plan)
           /\ IF Tail(plan) = <<>>
              THEN /\ wret' \in {WrapperReturn(wrapper, sret, v) : v \in ResultValues(sres)}
                   /\ pc' = "wreturned"
              ELSE /\ wret' = wret
                   /\ pc' = "enter"
    \* task_syscall's frame is gone
    /\ old_regs' = NoRegs /\ regs' = NoRegs /\ syscall_regs' = NoRegs
    /\ orig_code' = "text1" /\ ret' = 0 /\ res' = <<>>
    /\ installed' = FALSE /\ path' = "none" /\ log' = <<>>
    /\ pre_regs' = NoRegs /\ pre_mem' = "text1"
    /\ req' = [nr |-> 0, args |-> 0]
    /\ executed' = NoExec
    /\ UNCHANGED <<tregs, tmem, wrapper, calls>>

\* SIGINT reaches the controller after task_syscall wrote the syscall
\* instruction (line 1362) and before poke_back has run (line 1427). Neither
\* task_syscall nor main (uftrace.c:201-234) installs a handler, so the default
\* disposition ends the controller where it stands; the kernel detaches the
\* target, which keeps the registers and the bytes it has at that moment.
InFlight == {"setregs", "wait", "getregs2", "restore_regs", "poke_back"}

task_syscall_sigint ==
    /\ UNCHANGED notsys
    /\ pc \in InFlight
    /\ log' = Append(log, <<"sigint", TRUE>>)
    /\ pc' = "killed"
    /\ UNCHANGED <<tregs, tmem, executed, old_regs, regs, syscall_regs, orig_code,
                   ret, res, installed, path, pre_regs, pre_mem, req, wrapper,
                   plan, sys_ret, sys_res, wret, calls>>

NextSys ==
    \/ WrapperCall
    \/ task_syscall_enter
    \/ task_syscall_getregs
    \/ task_syscall_save_scratch
    \/ task_syscall_write_syscall
    \/ task_syscall_setregs
    \/ task_syscall_wait
    \/ task_syscall_getregs2
    \/ task_syscall_restore_regs
    \/ task_syscall_poke_back
    \/ task_syscall_sigint
    \/ WrapperNext

\* =================================================================
\*  Part 2: open_task, update_task_vmas, free_task and ROOT_DIR/<pid>
\* =================================================================

\* two controller processes working on the same pid
Controllers == {"A", "B"}

\* the FTO_ flags open_task and free_task look at
FTO == {"LIBC", "SELF", "VMA_ELF", "PROC"}

\* a line of /proc/PID/maps as read_task_vmas sees it: the type get_vma_type
\* gives its pathname, and whether its perms have 'x'
Line(type, x) == [type |-> type, exec |-> x]

\* contents of /proc/PID/maps: a kernel thread, a static executable, a
\* dynamic executable, and an image with libc but no [stack] line
MapsChoices ==
    { <<>>,
      <<Line("SELF", TRUE), Line("STACK", FALSE)>>,
      <<Line("SELF", TRUE), Line("LIBC", FALSE), Line("LIBC", TRUE), Line("STACK", FALSE)>>,
      <<Line("LIBC", TRUE), Line("SELF", TRUE)>> }

\* the first index of m whose line satisfies P, 0 (NULL) if there is none
FirstLine(m, P(_)) ==
    IF \E i \in 1..Len(m) : P(m[i])
    THEN CHOOSE i \in 1..Len(m) : P(m[i]) /\ \A j \in 1..(i - 1) : ~P(m[j])
    ELSE 0

IsLibcText(l) == l.type = "LIBC" /\ l.exec
IsStack(l) == l.type = "STACK"

NoTask == [state |-> "none", flags |-> {}, libc_vma |-> 0, stack |-> 0,
           nvmas |-> 0, listed |-> FALSE, fd_open |-> FALSE]

\* free_task_vmas: every VMA unlinked and freed, libc_vma and stack NULL
free_task_vmas(t) == [t EXCEPT !.nvmas = 0, !.libc_vma = 0, !.stack = 0]

\* read_task_vmas: with update the old VMAs are freed first; when
\* /proc/PID/maps cannot be opened nothing is read; else one VMA per line,
\* libc_vma the first executable VMA_LIBC line, stack the first VMA_STACK line
read_task_vmas(t, update, m, readable) ==
    LET t0 == IF update THEN free_task_vmas(t) ELSE t
    IN  IF ~readable THEN t0
        ELSE [t0 EXCEPT
                !.nvmas = t0.nvmas + Len(m),
                !.libc_vma = IF t0.libc_vma = 0 THEN FirstLine(m, IsLibcText) ELSE @,
                !.stack = IF t0.stack = 0 THEN FirstLine(m, IsStack) ELSE @]

update_task_vmas(t, m, readable) == read_task_vmas(t, TRUE, m, readable)

NoDir == [pid |-> FALSE, comm |-> FALSE, map_files |-> FALSE]

\* mkdirat(ROOT_DIR/<pid>): done, or EEXIST which open_task accepts
mkdir_pid(d) == [d EXCEPT !.pid = TRUE]
\* fopen(ROOT_DIR/<pid>/comm, "w")
fopen_comm(d) == [d EXCEPT !.comm = TRUE]
\* mkdirat(ROOT_DIR/<pid>/map_files)
mkdir_map_files(d) == [d EXCEPT !.map_files = TRUE]

\* unlink(ROOT_DIR/<pid>/comm)
unlink_comm(d) == [d EXCEPT !.comm = FALSE]
\* rmdir(ROOT_DIR/<pid>/map_files)
rmdir_map_files(d) == [d EXCEPT !.map_files = FALSE]
\* rmdir(ROOT_DIR/<pid>): only an empty directory is removed
rmdir_pid(d) == IF d.pid /\ ~d.comm /\ ~d.map_files THEN [d EXCEPT !.pid = FALSE] ELSE d

free_task_proc_keep_map_files(d) == rmdir_pid(unlink_comm(d))

\* free_task, lines 1054-1079: the FTO_PROC block
free_task_proc(d) == rmdir_pid(rmdir_map_files(unlink_comm(d)))

\* free_task, lines 1033-1090, on task record t: whether it read through a
\* NULL libc_vma (line 1052), the work directory after it, and the record
\* after list_del, close(proc_mem_fd), free_task_vmas and free
free_task(t, d) ==
    [null_access |-> ("LIBC" \in t.flags /\ t.libc_vma = 0),
     dir |-> IF "PROC" \in t.flags THEN free_task_proc(d) ELSE d,
     task |-> [free_task_vmas(t) EXCEPT !.state = "none", !.flags = {},
                                        !.listed = FALSE, !.fd_open = FALSE]]

\* what the controller's environment may refuse during open_task: nothing,
\* elf_file_open of libc or of the executable, or mkdirat of a directory that
\* does not exist yet
OpenEnv == {"none", "libc_elf", "exe_elf", "mkdir_pid", "mkdir_map_files"}

\* open_task, lines 936-1021, once /proc/PID/mem is open: the task read from
\* maps content m, the work directory, and whether it reached "All success"
\* (ok) or went to the free_task label with the directory as it then was
open_task(flag, m, d, refused) ==
    LET t  == read_task_vmas([NoTask EXCEPT !.flags = flag, !.fd_open = TRUE],
                             FALSE, m, TRUE)
        d1 == fopen_comm(mkdir_pid(d))
        failed(dd) == [ok |-> FALSE, task |-> t, dir |-> dd]
    IN  IF t.libc_vma = 0 \/ t.stack = 0 THEN failed(d)
        ELSE IF "LIBC" \in flag /\ refused = "libc_elf" THEN failed(d)
        ELSE IF "SELF" \in flag /\ refused = "exe_elf" THEN failed(d)
        ELSE IF "PROC" \notin flag THEN [ok |-> TRUE, task |-> t, dir |-> d]
        ELSE IF ~d.pid /\ refused = "mkdir_pid" THEN failed(d)
        ELSE IF ~d1.map_files /\ refused = "mkdir_map_files" THEN failed(d1)
        ELSE [ok |-> TRUE, task |-> t, dir |-> mkdir_map_files(d1)]

\* an entry of the work directory that existed in d is gone in d2
Removed(d, d2) == \E f \in {"pid", "comm", "map_files"} : d[f] /\ ~d2[f]

NoEv == [op |-> "none", c |-> "A", flags |-> {}, ok |-> FALSE,
         null_access |-> FALSE, foreign |-> FALSE]

\* no task is open and ROOT_DIR holds nothing for the pid
NoTasks ==
    /\ alive = TRUE
    /\ task = [c \in Controllers |-> NoTask]
    /\ dir = NoDir
    /\ ev = NoEv

InitTask == maps \in MapsChoices /\ NoTasks

Event(op, c, flag, ok, na, foreign) ==
    [op |-> op, c |-> c, flags |-> flag \cap {"LIBC", "PROC"}, ok |-> ok,
     null_access |-> na, foreign |-> foreign]

\* the outcomes of free_task: reading through a NULL libc_vma is undefined,
\* the controller either dies there (line 1052, before the FTO_PROC block)
\* or goes on
Crashes(f) == IF f.null_access THEN BOOLEAN ELSE {FALSE}

\* controller c calls open_task(pid, flag)
OpenTask(c) ==
    /\ UNCHANGED nottask
    /\ task[c].state = "none"
    /\ \E flag \in SUBSET FTO, e \in OpenEnv :
         IF ~alive
         THEN \* open_pid_mem fails: return NULL
              /\ ev' = Event("open_task", c, flag, FALSE, FALSE, FALSE)
              /\ UNCHANGED <<task, dir>>
         ELSE LET r == open_task(flag, maps, dir, e)
                  f == free_task(r.task, r.dir)
              IN  IF r.ok
                  THEN /\ task' = [task EXCEPT ![c] =
                                     [r.task EXCEPT !.state = "open", !.listed = TRUE]]
                       /\ dir' = r.dir
                       /\ ev' = Event("open_task", c, flag, TRUE, FALSE, FALSE)
                  ELSE \E crash \in Crashes(f) :
                       /\ dir' = IF crash THEN r.dir ELSE f.dir
                       /\ task' = task
                       /\ ev' = Event("open_task", c, flag, FALSE, f.null_access,
                                      Removed(dir, dir'))
    /\ UNCHANGED <<maps, alive>>

\* controller c calls update_task_vmas on its open task
UpdateTaskVmas(c) ==
    /\ UNCHANGED nottask
    /\ task[c].state = "open"
    /\ task' = [task EXCEPT ![c] = update_task_vmas(task[c], maps, alive)]
    /\ ev' = Event("update_task_vmas", c, task[c].flags, alive, FALSE, FALSE)
    /\ UNCHANGED <<maps, alive, dir>>

\* controller c calls free_task on its open task
FreeTask(c) ==
    /\ UNCHANGED nottask
    /\ task[c].state = "open"
    /\ LET f == free_task(task[c], dir)
       IN  \E crash \in Crashes(f) :
             /\ dir' = IF crash THEN dir ELSE f.dir
             /\ ev' = Event("free_task", c, task[c].flags, ~crash, f.null_access, FALSE)
             /\ task' = [task EXCEPT ![c] = f.task]
    /\ UNCHANGED <<maps, alive>>

\* the target maps or unmaps something, or execs another image
TargetChanges ==
    /\ UNCHANGED nottask
    /\ alive
    /\ maps' \in MapsChoices \ {maps}
    /\ ev' = [NoEv EXCEPT !.op = "target"]
    /\ UNCHANGED <<alive, task, dir>>

\* the target exits
TargetExits ==
    /\ UNCHANGED nottask
    /\ alive
    /\ alive' = FALSE
    /\ ev' = [NoEv EXCEPT !.op = "target"]
    /\ UNCHANGED <<maps, task, dir>>

\* a new process gets the pid
TargetStarts ==
    /\ UNCHANGED nottask
    /\ ~alive
    /\ alive' = TRUE
    /\ maps' \in MapsChoices
    /\ ev' = [NoEv EXCEPT !.op = "target"]
    /\ UNCHANGED <<task, dir>>

NextTask ==
    \/ \E c \in Controllers : OpenTask(c)
    \/ \E c \in Controllers : UpdateTaskVmas(c)
    \/ \E c \in Controllers : FreeTask(c)
    \/ TargetChanges
    \/ TargetExits
    \/ TargetStarts

\* =================================================================
\*  Part 3: the VMA tree and find_vma_span_area
\* =================================================================

\* addresses a VMA may start or end at, and the sizes asked for
Addrs == {4194304, 4198400, 4202496, 5242880, 5246976}
Sizes == {0, 4096, 524288, 1044480, 2097152}

Vma(start, end) == [start |-> start, end |-> end]
AllVmas == {v \in {Vma(a, b) : a \in Addrs, b \in Addrs} : v.start < v.end}

\* __vma_rb_cmp(node, new): -1 when new lies below the node, 0 when they
\* overlap, 1 when new lies above it
vma_rb_cmp(vma, new) ==
    IF new.end <= vma.start THEN -1
    ELSE IF vma.start < new.end /\ vma.end > new.start THEN 0
    ELSE 1

\* insert_vma into the tree, kept here as its in-order sequence: the nodes new
\* lies above stay before it, the nodes it lies below come after it
insert_vma(t, new) ==
    SelectSeq(t, LAMBDA v : vma_rb_cmp(v, new) = 1) \o <<new>> \o
    SelectSeq(t, LAMBDA v : vma_rb_cmp(v, new) = -1)

\* unlink_vma: rb_erase of the i-th node in address order
unlink_vma(t, i) == SubSeq(t, 1, i - 1) \o SubSeq(t, i + 1, Len(t))

RECURSIVE span_scan_gt(_, _, _)
span_scan_gt(t, i, size) ==
    IF i > Len(t) THEN 0
    ELSE IF i = Len(t) THEN 0
    ELSE IF t[i + 1].start - t[i].end > size THEN t[i].end
    ELSE span_scan_gt(t, i + 1, size)

find_vma_span_area_gt(t, size) == span_scan_gt(t, 1, size)

\* the loop of find_vma_span_area from node i on (rb_first is node 1, rb_next
\* of node i is node i + 1); the subtraction is unsigned and does not wrap as
\* the nodes are in address order and do not overlap
RECURSIVE span_scan(_, _, _)
span_scan(t, i, size) ==
    IF i > Len(t) THEN 0
    ELSE IF i = Len(t) THEN 0
    ELSE IF t[i + 1].start - t[i].end >= size THEN t[i].end
    ELSE span_scan(t, i + 1, size)

\* find_vma_span_area, lines 156-175
find_vma_span_area(t, size) == span_scan(t, 1, size)

NoSpan == [called |-> FALSE, size |-> 0, result |-> 0]

InitSpan ==
    /\ vmas_rb = <<>>
    /\ span = NoSpan

\* a VMA read from /proc/PID/maps is inserted; the kernel lists no two
\* overlapping mappings
InsertVma ==
    /\ UNCHANGED notspan
    /\ Len(vmas_rb) < MaxVmas
    /\ \E new \in AllVmas :
         /\ \A i \in 1..Len(vmas_rb) : vma_rb_cmp(vmas_rb[i], new) # 0
         /\ vmas_rb' = insert_vma(vmas_rb, new)
    /\ span' = NoSpan

UnlinkVma ==
    /\ UNCHANGED notspan
    /\ \E i \in 1..Len(vmas_rb) : vmas_rb' = unlink_vma(vmas_rb, i)
    /\ span' = NoSpan

FindVmaSpanArea ==
    /\ UNCHANGED notspan
    /\ \E size \in Sizes :
         span' = [called |-> TRUE, size |-> size,
                  result |-> find_vma_span_area(vmas_rb, size)]
    /\ UNCHANGED vmas_rb

NextSpan ==
    \/ InsertVma
    \/ UnlinkVma
    \/ FindVmaSpanArea

\* =================================================================
\*  Part 4: read_task_vmas on the tree, leaders and siblings, symbols
\* =================================================================

\* one line of /proc/PID/maps. vaddr is the p_vaddr of the PT_LOAD the
\* mapping comes from (0 when the file is no ELF object). tail says how
\* the text goes on past the sizeof(line) - 1 characters one fgets takes:
\* "none" when the line fits, "nonhex" when the rest starts with no hex
\* digit, "hex" when it starts with hex digits, of value hex
MapsLine(start, end, offset, vaddr, name, tail, hex) ==
    [start |-> start, end |-> end, offset |-> offset, vaddr |-> vaddr,
     name |-> name, tail |-> tail, hex |-> hex]

\* the lines a /proc/PID/maps content is made of: an executable at 0x400000
\* (its first line also with a path too long for one fgets), an anonymous
\* mapping, a data file, and a library in three segments at 0x70000000
\* whose last segment sits one page above its file offset
MapLines ==
    {MapsLine(4194304, 4198400, 0, 0, "exe", "none", 0),
     MapsLine(4194304, 4198400, 0, 0, "exe", "nonhex", 0),
     MapsLine(4194304, 4198400, 0, 0, "exe", "hex", 4198400),
     MapsLine(4198400, 4202496, 4096, 4096, "exe", "none", 0),
     MapsLine(5242880, 5246976, 0, 0, "", "none", 0),
     MapsLine(5246976, 5251072, 8192, 8192, "exe", "none", 0),
     MapsLine(5251072, 5255168, 0, 0, "data", "none", 0),
     MapsLine(1879048192, 1879212032, 0, 0, "libc.so", "none", 0),
     MapsLine(1879212032, 1881104384, 163840, 163840, "libc.so", "none", 0),
     MapsLine(1881104384, 1881108480, 2052096, 2056192, "libc.so", "none", 0)}

\* the lines of S in address order
RECURSIVE InOrder(_)
InOrder(S) ==
    IF S = {} THEN <<>>
    ELSE LET l == CHOOSE x \in S : \A y \in S : x.start <= y.start
         IN <<l>> \o InOrder(S \ {l})

\* the contents the kernel can produce: up to MaxLines mappings, no two of
\* them overlapping, listed in address order; a library is mapped from its
\* first segment on, with every segment up to its highest
MapsContents ==
    {InOrder(S) : S \in {T \in SUBSET MapLines :
        /\ Cardinality(T) <= MaxLines
        /\ \A a, b \in T : a # b => (a.end <= b.start \/ b.end <= a.start)
        /\ \A a \in T : \A b \in MapLines :
               (a.name = "libc.so" /\ b.name = a.name /\ b.start < a.start)
                   => b \in T}}

\* fgets + sscanf of read_task_vmas, lines 746-755, on one line of text: the
\* fields of the first sizeof(line) - 1 characters (r is 7 or 8), then, when
\* the text is longer, the fields sscanf gets from the rest: "%lx" takes the
\* hex digits it starts with (r = 1, start set, all else left 0) or nothing
\* (r = 0)
Scanned(l) ==
    <<[r |-> IF l.name = "" THEN 7 ELSE 8, start |-> l.start, end |-> l.end,
       offset |-> l.offset, vaddr |-> l.vaddr, name |-> l.name]>> \o
    (IF l.tail = "none" THEN <<>>
     ELSE IF l.tail = "nonhex"
          THEN <<[r |-> 0, start |-> 0, end |-> 0, offset |-> 0, vaddr |-> 0,
                  name |-> ""]>>
          ELSE <<[r |-> 1, start |-> l.hex, end |-> 0, offset |-> 0,
                  vaddr |-> 0, name |-> ""]>>)

RECURSIVE ScannedAll(_)
ScannedAll(m) == IF m = <<>> THEN <<>> ELSE Scanned(Head(m)) \o ScannedAll(Tail(m))

\* get_vma_type / vma_peek_phdr: the shared libraries among the names
is_share_lib(name) == name = "libc.so"

\* list_add(&vma->siblings, &leader->siblings): the leader's sibling list
\* with the new VMA linked in
list_add(siblings, id) == Append(siblings, id)

\* the VMA with identity id (its place in the order of allocation) in tree t
VmaOf(t, id) == CHOOSE v \in {t[i] : i \in 1..Len(t)} : v.id = id

\* insert_vma(task, vma, prev), lines 89-104, on the tree t: vma joins the
\* leader of prev when both have one name, and goes into the tree
insert_vma_prev(t, vma, prev) ==
    LET joins == prev # 0 /\ VmaOf(t, prev).name = vma.name
        leader == IF joins THEN VmaOf(t, prev).leader ELSE vma.id
        linked == [i \in 1..Len(t) |->
                     IF joins /\ t[i].id = leader
                     THEN [t[i] EXCEPT !.siblings = list_add(@, vma.id)]
                     ELSE t[i]]
    IN insert_vma(linked, [vma EXCEPT !.leader = leader])

\* the loop of read_task_vmas, lines 733-789, over the scanned text c from
\* its i-th piece on
RECURSIVE read_loop(_, _, _, _)
read_loop(c, i, t, prev) ==
    IF i > Len(c) THEN [ret |-> 0, vmas |-> t]
    ELSE IF c[i].r <= 0 THEN [ret |-> -1, vmas |-> t]
    ELSE read_loop(c, i + 1,
                   insert_vma_prev(t, [id |-> i, start |-> c[i].start,
                                       end |-> c[i].end, offset |-> c[i].offset,
                                       vaddr |-> c[i].vaddr, name |-> c[i].name,
                                       leader |-> i, siblings |-> <<>>], prev),
                   i)

\* read_task_vmas(task, update) on a tree that is empty (open_task) or was
\* emptied by free_task_vmas (update), for the maps content m
read_vmas_tree(m) == read_loop(ScannedAll(m), 1, <<>>, 0)

\* the place rb_insert_node gives each VMA is the same for every shape of
\* the tree: on the way down, the nodes a new VMA lies above are all before
\* the nodes it lies below, and it overlaps none
RECURSIVE CmpAgree(_, _, _)
CmpAgree(c, i, t) ==
    IF i > Len(c) \/ c[i].r <= 0 THEN TRUE
    ELSE LET new == [start |-> c[i].start, end |-> c[i].end]
         IN /\ \A j \in 1..Len(t) : vma_rb_cmp(t[j], new) # 0
            /\ \A j, k \in 1..Len(t) :
                 (vma_rb_cmp(t[j], new) = -1 /\ vma_rb_cmp(t[k], new) = 1) => k < j
            /\ CmpAgree(c, i + 1, insert_vma(t, new))

\* __find_vma_cmp, lines 125-135
find_vma_cmp(vma, vaddr) ==
    IF vma.start > vaddr THEN -1
    ELSE IF vma.start <= vaddr /\ vma.end > vaddr THEN 0
    ELSE 1

\* find_vma, lines 137-145: what rb_search_node can return on the nodes
\* lo..hi of the tree, whichever of them is the root of that subtree; 0 is
\* NULL
RECURSIVE find_vma_in(_, _, _, _)
find_vma_in(t, lo, hi, vaddr) ==
    IF lo > hi THEN {0}
    ELSE UNION {IF find_vma_cmp(t[i], vaddr) = 0 THEN {t[i].id}
                ELSE IF find_vma_cmp(t[i], vaddr) < 0
                     THEN find_vma_in(t, lo, i - 1, vaddr)
                     ELSE find_vma_in(t, i + 1, hi, vaddr) : i \in lo..hi}

find_vma(t, vaddr) == find_vma_in(t, 1, Len(t), vaddr)

\* the VMAs of tree t that have v's name: the segments of v's file
SegmentsOf(t, v) == {t[i] : i \in {j \in 1..Len(t) : t[j].name = v.name}}

\* the loop of task_vma_symbol_value, lines 467-472, over the leader's
\* sibling list: the first sibling with off < offset, or, when the loop runs
\* to its end, the entry of the list head, which is the leader itself
symbol_segment(t, leader, off) ==
    LET sibs == leader.siblings
        hits == {i \in 1..Len(sibs) : off < VmaOf(t, sibs[i]).offset}
    IN IF hits = {} THEN leader
       ELSE VmaOf(t, sibs[CHOOSE i \in hits : \A j \in hits : i <= j])

\* task_vma_symbol_value, lines 424-483, for a symbol of VMA id with value
\* st_value: the address, the segment it was taken relative to, and whether
\* the unsigned off - vma->offset wrapped (the sum is then still start -
\* offset + off, as start >= offset for every mapping here)
task_vma_symbol_value(t, id, st_value) ==
    LET v == VmaOf(t, id)
        seg == symbol_segment(t, v, st_value)
    IN IF v.leader # v.id THEN [addr |-> 0, seg |-> 0, wrapped |-> FALSE]
       ELSE IF is_share_lib(v.name)
            THEN [addr |-> seg.start + (st_value - seg.offset), seg |-> seg.id,
                  wrapped |-> st_value < seg.offset]
            ELSE [addr |-> st_value, seg |-> 0, wrapped |-> FALSE]

\* values of st_value: 0x1000, 0x6f3d0, 0x1f6800 in the library, 0x400800 in
\* the executable
StValues == {4096, 455632, 2058240, 4196352}

NoRd == [called |-> FALSE, m |-> <<>>, ret |-> 0]
NoSym == [called |-> FALSE, vma |-> 0, st_value |-> 0, addr |-> 0, seg |-> 0,
          wrapped |-> FALSE]

VmaIdle ==
    /\ vmas = <<>>
    /\ rd = NoRd
    /\ sym = NoSym

\* read_task_vmas(task, false) of open_task, or update_task_vmas, on the
\* content m of /proc/PID/maps
ReadTaskVmas ==
    /\ UNCHANGED notvma
    /\ \E m \in MapsContents :
         /\ CmpAgree(ScannedAll(m), 1, <<>>)
         /\ vmas' = read_vmas_tree(m).vmas
         /\ rd' = [called |-> TRUE, m |-> m, ret |-> read_vmas_tree(m).ret]
    /\ sym' = NoSym

\* task_vma_symbol_value(sym) for a defined symbol of the file of one VMA: in
\* a library st_value lies in one of the file's PT_LOAD segments
TaskVmaSymbolValue ==
    /\ UNCHANGED notvma
    /\ \E i \in 1..Len(vmas), st \in StValues :
         /\ is_share_lib(vmas[i].name) =>
              \E g \in SegmentsOf(vmas, vmas[i]) :
                  g.vaddr <= st /\ st < g.vaddr + (g.end - g.start)
         /\ LET out == task_vma_symbol_value(vmas, vmas[i].id, st)
            IN sym' = [called |-> TRUE, vma |-> vmas[i].id, st_value |-> st,
                       addr |-> out.addr, seg |-> out.seg,
                       wrapped |-> out.wrapped]
    /\ UNCHANGED <<vmas, rd>>

NextVma ==
    \/ ReadTaskVmas
    \/ TaskVmaSymbolValue

\* =================================================================
\*  Part 5: task_attach, task_detach and the operations that use them
\* =================================================================

\* errno of a failed ptrace or waitpid: EPERM, ESRCH
Errnos == {1, ESRCH}

\* signals a wait status can carry
Signals == {"SIGSTOP", "SIGTRAP", "SIGUSR1"}

\* wait statuses: a stop with a signal, a death by a signal, an exit
Status(kind, sig) == [kind |-> kind, sig |-> sig]
NoStatus == Status("none", "0")

\* one entry of task_attach's log: the call, whether it succeeded, the wait
\* status it reported or the signal it passed
Call(call, ok, kind, sig) == [call |-> call, ok |-> ok, kind |-> kind, sig |-> sig]

\* task_attach, lines 1120-1126, with every stop forwarded as it came
cont_signal_resend(status) ==
    IF status.kind \in {"stopped", "signaled"} THEN status.sig ELSE "raw"

\* task_attach, lines 1116-1124: the signal given to PTRACE_CONT after the
\* wait status: none after a SIGTRAP stop, the stop signal after another
\* stop, the terminating signal after a death, the status word as it is
\* after an exit
cont_signal(status) ==
    IF status.kind = "stopped"
    THEN (IF status.sig = "SIGTRAP" THEN "0" ELSE status.sig)
    ELSE IF status.kind = "signaled" THEN status.sig
    ELSE "raw"

\* task_attach, lines 1097-1101: PTRACE_ATTACH, refused for a target that
\* is gone or already traced
TaskAttachPtrace ==
    /\ UNCHANGED notctl
    /\ UNCHANGED ctlmaps
    /\ cpc = "attach" /\ apc = "attach"
    /\ \/ /\ traced = "no" /\ ~dead
          /\ traced' = "running"
          /\ apc' = "wait"
          /\ alog' = Append(alog, Call("PTRACE_ATTACH", TRUE, "none", "0"))
          /\ UNCHANGED aret
       \/ /\ \E e \in Errnos : aret' = -e
          /\ apc' = "done"
          /\ alog' = Append(alog, Call("PTRACE_ATTACH", FALSE, "none", "0"))
          /\ UNCHANGED traced
    /\ UNCHANGED <<dead, astatus, waits, cop, cpc, cret, map_fd, rfd_open, clog>>

\* task_attach, lines 1103-1112: waitpid; SIGSTOP ends the loop
TaskAttachWait ==
    /\ UNCHANGED notctl
    /\ UNCHANGED ctlmaps
    /\ cpc = "attach" /\ apc = "wait"
    /\ \/ /\ \E e \in Errnos : aret' = -e
          /\ apc' = "done"
          /\ alog' = Append(alog, Call("waitpid", FALSE, "none", "0"))
          /\ UNCHANGED <<traced, dead, astatus, waits>>
       \/ /\ ~dead
          /\ traced' = "stopped"
          /\ astatus' = Status("stopped", "SIGSTOP")
          /\ aret' = 0
          /\ apc' = "done"
          /\ alog' = Append(alog, Call("waitpid", TRUE, "stopped", "SIGSTOP"))
          /\ UNCHANGED <<dead, waits>>
       \/ /\ ~dead /\ waits < MaxWaits
          /\ \E sig \in Signals \ {"SIGSTOP"} :
               /\ astatus' = Status("stopped", sig)
               /\ alog' = Append(alog, Call("waitpid", TRUE, "stopped", sig))
          /\ traced' = "stopped"
          /\ aret' = 0
          /\ apc' = "cont"
          /\ waits' = waits + 1
          /\ UNCHANGED dead
       \/ /\ ~dead /\ waits < MaxWaits
          /\ \E st \in {Status("signaled", "SIGKILL"), Status("exited", "0")} :
               /\ astatus' = st
               /\ alog' = Append(alog, Call("waitpid", TRUE, st.kind, st.sig))
          /\ dead' = TRUE
          /\ traced' = "no"
          /\ aret' = 0
          /\ apc' = "cont"
          /\ waits' = waits + 1
    /\ UNCHANGED <<cop, cpc, cret, map_fd, rfd_open, clog>>

\* task_attach, lines 1124-1128: PTRACE_CONT with the signal
TaskAttachCont ==
    /\ UNCHANGED notctl
    /\ UNCHANGED ctlmaps
    /\ cpc = "attach" /\ apc = "cont"
    /\ \/ /\ ~dead
          /\ traced' = "running"
          /\ apc' = "wait"
          /\ alog' = Append(alog, Call("PTRACE_CONT", TRUE, "none", cont_signal(astatus)))
          /\ UNCHANGED aret
       \/ /\ \E e \in Errnos : aret' = -e
          /\ apc' = "done"
          /\ alog' = Append(alog, Call("PTRACE_CONT", FALSE, "none", cont_signal(astatus)))
          /\ UNCHANGED traced
    /\ UNCHANGED <<dead, astatus, waits, cop, cpc, cret, map_fd, rfd_open, clog>>

\* the controller operations: mmap_object and munmap_object of uftrace,
\* mmap_a_file, munmap_an_vma and the --jmp write of ultask
Ops == {"mmap_object", "munmap_object", "mmap_a_file", "munmap_an_vma", "jmp"}

\* one entry of an operation's log: what was called, whether it took effect
\* in the target, and whether the target was ptrace-stopped at the call
Did(what, ok, stopped) == [what |-> what, ok |-> ok, stopped |-> stopped]

\* a wrapper's task_syscall as the operation sees it: on a target that is
\* not ptrace-stopped PTRACE_GETREGS fails and *res stays unwritten; on a
\* stopped one the syscall runs and gives one of the kernel's results, or a
\* ptrace request fails
RemoteCalls(w, stopped) ==
    {[sret |-> -1, res |-> <<>>, ran |-> FALSE]} \cup
    (IF stopped
     THEN {[sret |-> 0, res |-> <<k>>, ran |-> TRUE] :
               k \in KernelResults(Plan(w)[Decisive(w)])}
     ELSE {})

\* task_open2 of ultask: the remote open, as task_open
task_open2(sret, result) == task_open(sret, result)

\* uftrace's global obj_target_tasp_map_size: mmap_object declares a local
\* of the same name and sets that one (uftrace.c:141, 146)
obj_target_tasp_map_size == 0

\* a mapping in the target: its first page and its number of pages
Mapping(addr, len) == [addr |-> addr, len |-> len]

\* the addresses --vma-addr may name: pages around the mapping
VmaAddrs == 3..(4 + ObjLen)

\* find_vma on the task's tree: the mapping that contains the address
VmasAt(maps_, addr) ==
    {m \in maps_ : m.addr <= addr /\ addr < m.addr + m.len}

\* the kernel's munmap(addr, len) with len > 0: what is left of the mappings
kernel_munmap(maps_, addr, len) ==
    {Mapping(m.addr, addr - m.addr) :
        m \in {x \in maps_ : x.addr < addr /\ addr < x.addr + x.len}}
    \cup {Mapping(addr + len, m.addr + m.len - (addr + len)) :
        m \in {x \in maps_ : x.addr < addr + len
                                /\ addr + len < x.addr + x.len}}
    \cup {m \in maps_ : m.addr + m.len <= addr \/ addr + len <= m.addr}

NoUnmap == [vma_addr |-> 0, addr |-> 0, len |-> 0, ran |-> FALSE,
            before |-> {}]

NoWrite == [n |-> 0]

\* a size_t compared with a size: n < sz where n was an int; a negative int
\* becomes a value above every size
size_t_lt(n, sz) == IF n < 0 THEN FALSE ELSE n < sz

\* insn_sz = sizeof(struct jmp_table_entry): two unsigned longs
\* (ultask.c:671-676)
insn_sz == 2 * 8

\* ultask.c:680, with n an int
jmp_write_failed_int(n, sz) == n < 0 \/ n < sz

\* ultask.c:680: n == -1 || n < insn_sz, with size_t n
jmp_write_failed(n, sz) == n = -1 \/ size_t_lt(n, sz)

\* an operation starts. munmap_object does nothing when no address was
\* recorded (uftrace.c:191); munmap_an_vma leaves with -1 when find_vma
\* finds no VMA at the address, and unmaps from the start of the VMA for the
\* size of its file, or for its own size (ultask.c:530-542)
CtlStart ==
    /\ UNCHANGED notctl
    /\ cpc = "idle"
    /\ \E op \in Ops :
         /\ cop' = op
         /\ op \in {"mmap_object", "mmap_a_file"} => tmaps = {}
         /\ CASE op = "jmp" ->
                   cpc' = "write" /\ cret' = 0 /\ unmap' = NoUnmap
              [] op = "munmap_object" ->
                   /\ cpc' = IF obj_addr # 0 THEN "attach" ELSE "done"
                   /\ cret' = 0
                   /\ unmap' = [NoUnmap EXCEPT !.addr = obj_addr,
                                   !.len = obj_target_tasp_map_size]
              [] op = "munmap_an_vma" ->
                   \E a \in VmaAddrs :
                     IF VmasAt(tmaps, a) = {}
                     THEN cpc' = "done" /\ cret' = -1 /\ unmap' = NoUnmap
                     ELSE \E vma \in VmasAt(tmaps, a) :
                          \E size \in 1..vma.len :
                            /\ cpc' = "attach" /\ cret' = 0
                            /\ unmap' = [NoUnmap EXCEPT !.vma_addr = a,
                                            !.addr = vma.addr, !.len = size]
              [] OTHER ->
                   cpc' = "attach" /\ cret' = 0 /\ unmap' = NoUnmap
    /\ apc' = "attach" /\ astatus' = NoStatus /\ aret' = 0 /\ alog' = <<>>
    /\ waits' = 0
    /\ map_fd' = 0 /\ rfd_open' = FALSE /\ clog' = <<>>
    /\ cmapped' = FALSE /\ wres' = NoWrite
    /\ UNCHANGED <<traced, dead, obj_addr, tmaps>>

\* task_attach has returned: mmap_object leaves with -1 when it failed
\* (uftrace.c:150-154), the others do not look at what it returned
\* (uftrace.c:193, ultask.c:488, 544)
CtlAttached ==
    /\ UNCHANGED notctl
    /\ UNCHANGED ctlmaps
    /\ cpc = "attach" /\ apc = "done"
    /\ clog' = Append(clog, Did("task_attach", aret = 0, traced = "stopped"))
    /\ IF cop = "mmap_object"
       THEN IF aret # 0 THEN cret' = -1 /\ cpc' = "done"
            ELSE cret' = aret /\ cpc' = "open"
       ELSE /\ UNCHANGED cret
            /\ cpc' = IF cop = "mmap_a_file" THEN "open" ELSE "munmap"
    /\ UNCHANGED <<traced, dead, apc, astatus, aret, alog, waits, cop, map_fd,
                   rfd_open>>

\* the remote open: the operation leaves with -1 when map_fd <= 0
\* (uftrace.c:155-162, ultask.c:490-494)
CtlOpen ==
    /\ UNCHANGED notctl
    /\ UNCHANGED ctlmaps
    /\ cpc = "open"
    /\ \E o \in RemoteCalls("task_open", traced = "stopped") :
       \E v \in ResultValues(o.res) :
         LET fd == IF cop = "mmap_a_file" THEN task_open2(o.sret, v)
                   ELSE task_open(o.sret, v)
         IN /\ map_fd' = fd
            /\ rfd_open' = (o.ran /\ v >= 0)
            /\ clog' = Append(clog, Did("task_open", o.ran, traced = "stopped"))
            /\ IF fd <= 0 THEN cret' = -1 /\ cpc' = "done"
               ELSE UNCHANGED cret /\ cpc' = "ftruncate"
    /\ UNCHANGED <<traced, dead, apc, astatus, aret, alog, waits, cop>>

\* the remote ftruncate (uftrace.c:164-168, ultask.c:496-500)
CtlFtruncate ==
    /\ UNCHANGED notctl
    /\ UNCHANGED ctlmaps
    /\ cpc = "ftruncate"
    /\ \E o \in RemoteCalls("task_ftruncate", traced = "stopped") :
       \E v \in ResultValues(o.res) :
         /\ cret' = task_ftruncate(o.sret, v)
         /\ clog' = Append(clog, Did("task_ftruncate", o.ran, traced = "stopped"))
         /\ cpc' = IF cret' # 0 THEN "close" ELSE "mmap"
    /\ UNCHANGED <<traced, dead, apc, astatus, aret, alog, waits, cop, map_fd,
                   rfd_open>>

\* the remote mmap; both outcomes go on to close_ret (uftrace.c:169-183,
\* ultask.c:510-516)
CtlMmap ==
    /\ UNCHANGED notctl
    /\ cpc = "mmap"
    /\ \E o \in RemoteCalls("task_mmap", traced = "stopped") :
       \E v \in ResultValues(o.res) :
         LET addr == task_mmap(o.sret, v) IN
         /\ o.ran => v # 0
         /\ clog' = Append(clog, Did("task_mmap", o.ran, traced = "stopped"))
         /\ cmapped' = (o.ran /\ v > 0)
         /\ tmaps' = IF o.ran /\ v > 0 THEN tmaps \cup {Mapping(v, ObjLen)}
                      ELSE tmaps
         /\ obj_addr' = IF cop = "mmap_object" THEN addr ELSE obj_addr
    /\ cpc' = "close"
    /\ UNCHANGED <<traced, dead, apc, astatus, aret, alog, waits, cop, cret,
                   map_fd, rfd_open, unmap, wres>>

\* close_ret: task_close(task, map_fd) (uftrace.c:183, ultask.c:517)
CtlClose ==
    /\ UNCHANGED notctl
    /\ UNCHANGED ctlmaps
    /\ cpc = "close"
    /\ \E o \in RemoteCalls("task_close", traced = "stopped") :
         /\ rfd_open' = (rfd_open /\ ~(o.ran /\ o.res = <<0>>))
         /\ clog' = Append(clog, Did("task_close", o.ran, traced = "stopped"))
    /\ cpc' = "detach"
    /\ UNCHANGED <<traced, dead, apc, astatus, aret, alog, waits, cop, cret,
                   map_fd>>

\* task_munmap of munmap_object and munmap_an_vma (uftrace.c:194,
\* ultask.c:545)
\* The kernel refuses a length of 0 and unmaps the pages of any other range.
CtlMunmap ==
    /\ UNCHANGED notctl
    /\ cpc = "munmap"
    /\ \E o \in RemoteCalls("task_munmap", traced = "stopped") :
         /\ o.ran => o.res = (IF unmap.len = 0 THEN <<-12>> ELSE <<0>>)
         /\ clog' = Append(clog, Did("task_munmap", o.ran, traced = "stopped"))
         /\ unmap' = [unmap EXCEPT !.ran = o.ran, !.before = tmaps]
         /\ tmaps' = IF o.ran /\ unmap.len > 0
                      THEN kernel_munmap(tmaps, unmap.addr, unmap.len)
                      ELSE tmaps
    /\ cpc' = "detach"
    /\ UNCHANGED <<traced, dead, apc, astatus, aret, alog, waits, cop, cret,
                   map_fd, rfd_open, obj_addr, cmapped, wres>>

\* task_detach, lines 1133-1143: PTRACE_DETACH lets a traced target run on
CtlDetach ==
    /\ UNCHANGED notctl
    /\ UNCHANGED ctlmaps
    /\ cpc = "detach"
    /\ clog' = Append(clog, Did("task_detach", traced # "no", traced = "stopped"))
    /\ traced' = "no"
    /\ cpc' = "done"
    /\ UNCHANGED <<dead, apc, astatus, aret, alog, waits, cop, cret, map_fd,
                   rfd_open>>

\* ultask --jmp: memcpy_to_task of the jump-table entry (ultask.c:657-685).
\* memcpy_to_task returns the bytes written, all of them or fewer, or
\* -errno; the result is kept in a size_t
CtlJmpWrite ==
    /\ UNCHANGED notctl
    /\ cpc = "write"
    /\ \E n \in {insn_sz, insn_sz \div 2}
                  \cup {-e : e \in Errnos} :
         /\ wres' = [n |-> n]
         /\ clog' = Append(clog, Did("memcpy_to_task", n > 0,
                                     traced = "stopped"))
         /\ cret' = IF jmp_write_failed(n, insn_sz) THEN -1
                     ELSE 0
    /\ cpc' = "done"
    /\ UNCHANGED <<traced, dead, apc, astatus, aret, alog, waits, cop, map_fd,
                   rfd_open, obj_addr, tmaps, cmapped, unmap>>

\* the operation has returned
CtlReturn ==
    /\ UNCHANGED notctl
    /\ UNCHANGED ctlmaps
    /\ cpc = "done"
    /\ cpc' = "idle"
    /\ cop' = "none"
    /\ UNCHANGED <<traced, dead, apc, astatus, aret, alog, waits, cret, map_fd,
                   rfd_open, clog>>

CtlIdle ==
    /\ traced = "no" /\ dead = FALSE
    /\ apc = "attach" /\ astatus = NoStatus /\ aret = 0 /\ alog = <<>>
    /\ waits = 0
    /\ cop = "none" /\ cpc = "idle"
    /\ cret = 0 /\ map_fd = 0 /\ rfd_open = FALSE /\ clog = <<>>
    /\ obj_addr = 0 /\ tmaps = {} /\ cmapped = FALSE
    /\ unmap = NoUnmap /\ wres = NoWrite

NextCtl ==
    \/ CtlStart
    \/ TaskAttachPtrace
    \/ TaskAttachWait
    \/ TaskAttachCont
    \/ CtlAttached
    \/ CtlOpen
    \/ CtlFtruncate
    \/ CtlMmap
    \/ CtlClose
    \/ CtlMunmap
    \/ CtlDetach
    \/ CtlJmpWrite
    \/ CtlReturn

\* =================================================================
\*  Part 6: rewriting the mcount call site and the function entry
\*  (tests/patch/patch.c with the x86-64 encoders it calls)
\* =================================================================

\* ---- 64-bit values, held as four 16-bit limbs, least significant first
Limb == 2^16

U64(l0, l1, l2, l3) == <<l0, l1, l2, l3>>

Small(n) == U64(n, 0, 0, 0)

\* a + b modulo 2^64
Add64(a, b) ==
    LET s1 == a[1] + b[1]
        s2 == a[2] + b[2] + s1 \div Limb
        s3 == a[3] + b[3] + s2 \div Limb
        s4 == a[4] + b[4] + s3 \div Limb
    IN  U64(s1 % Limb, s2 % Limb, s3 % Limb, s4 % Limb)

\* a - b modulo 2^64
Sub64(a, b) ==
    Add64(a, Add64(U64(Limb - 1 - b[1], Limb - 1 - b[2],
                       Limb - 1 - b[3], Limb - 1 - b[4]), Small(1)))

\* the value, read as a signed 64-bit number, is a signed 32-bit number
FitsS32(d) ==
    \/ d[3] = 0 /\ d[4] = 0 /\ d[2] < Limb \div 2
    \/ d[3] = Limb - 1 /\ d[4] = Limb - 1 /\ d[2] >= Limb \div 2

\* the low 32 bits as four bytes, little-endian
LE32(d) == <<d[1] % 256, d[1] \div 256, d[2] % 256, d[2] \div 256>>

\* all 64 bits as eight bytes, little-endian
LE64(d) == LE32(d) \o <<d[3] % 256, d[3] \div 256, d[4] % 256, d[4] \div 256>>

\* four little-endian bytes read as a signed 32-bit number, sign-extended
SExt32(b) ==
    LET l0 == b[1] + 256 * b[2]
        l1 == b[3] + 256 * b[4]
        hi == IF l1 >= Limb \div 2 THEN Limb - 1 ELSE 0
    IN  U64(l0, l1, hi, hi)

\* eight little-endian bytes read as a 64-bit number
Load64(b) ==
    U64(b[1] + 256 * b[2], b[3] + 256 * b[4],
        b[5] + 256 * b[6], b[7] + 256 * b[8])

\* ---- the x86-64 encoders
\* no instruction: the encoder failed (a NULL pointer in the C code)
NoInsn == <<>>

\* E8 rel32 and E9 rel32
CALL_INSN_OPCODE == 232
JMP32_INSN_OPCODE == 233

\* the size of a call instruction (E8 rel32)
MCOUNT_INSN_SIZE == 5

\* rel32 = target - (ip + size of the instruction)
Displacement(ip, target) == Sub64(target, Add64(ip, Small(MCOUNT_INSN_SIZE)))

\* the opcode followed by the displacement; no instruction when the
\* displacement is no signed 32-bit value
text_gen_insn(opcode, ip, target) ==
    IF FitsS32(Displacement(ip, target))
    THEN <<opcode>> \o LE32(Displacement(ip, target))
    ELSE NoInsn

ftrace_call_replace(ip, addr) == text_gen_insn(CALL_INSN_OPCODE, ip, addr)

ulpatch_jmpq_replace(ip, addr) == text_gen_insn(JMP32_INSN_OPCODE, ip, addr)

\* the five-byte NOP 0F 1F 44 00 00
ftrace_nop_replace == <<15, 31, 68, 0, 0>>

\* struct jmp_table_entry { unsigned long jmp; unsigned long addr; }:
\* jmp holds "jmp *2(%rip)" (FF 25 02 00 00 00) and two bytes of padding, so
\* that the quadword loaded is addr
arch_jmp_table_jmp == <<255, 37, 2, 0, 0, 0, 0, 0>>

jmp_table_entry(addr) == arch_jmp_table_jmp \o LE64(addr)

\* sizeof(struct jmp_table_entry)
sizeof_jmp_table_entry == Len(jmp_table_entry(Small(0)))

\* the address does not fit four bytes: (addr & 0xFFFFFFFFUL) != addr
address_overflow_never(addr) == FALSE

address_overflow(addr) == addr[3] # 0 \/ addr[4] # 0

\* ---- the encoders applied to addresses
\* the spec's 0x401020, addresses below and above it, one that a positive
\* rel32 does not reach from it, addresses above 4 GiB and 2^48
EncAddrs ==
    { U64(4128, 64, 0, 0),          \* 0x401020
      U64(4352, 64, 0, 0),          \* 0x401100
      U64(0, 64, 0, 0),             \* 0x400000
      U64(0, 49152, 0, 0),          \* 0xC0000000
      U64(20512, 21845, 21845, 0),  \* 0x555555555020
      U64(20736, 21845, 21845, 0),  \* 0x555555555100
      U64(0, 63456, 32767, 0),      \* 0x7ffff7e00000
      U64(0, 0, 0, 1) }             \* 0x1000000000000

NoEnc == [who |-> "none", ip |-> Small(0), target |-> Small(0),
          skipped |-> FALSE, out |-> NoInsn]

\* the encoder alone
EncCallReplace ==
    /\ \E ip \in EncAddrs, target \in EncAddrs :
         enc' = [who |-> "ftrace_call_replace", ip |-> ip, target |-> target,
                 skipped |-> FALSE, out |-> ftrace_call_replace(ip, target)]
    /\ UNCHANGED <<notenc>>

EncJmpqReplace ==
    /\ \E ip \in EncAddrs, target \in EncAddrs :
         enc' = [who |-> "ulpatch_jmpq_replace", ip |-> ip, target |-> target,
                 skipped |-> FALSE, out |-> ulpatch_jmpq_replace(ip, target)]
    /\ UNCHANGED <<notenc>>

\* direct_patch_ftrace_test, lines 120-152 with REPLACE_MCOUNT: the test
\* returns before the encoder is called when the address does not fit four
\* bytes
EncTestCall ==
    /\ \E ip \in EncAddrs, addr \in EncAddrs :
         enc' = [who |-> "direct_patch_ftrace_test", ip |-> ip,
                 target |-> addr,
                 skipped |-> address_overflow(addr),
                 out |-> IF address_overflow(addr) THEN NoInsn
                         ELSE ftrace_call_replace(ip, addr)]
    /\ UNCHANGED <<notenc>>

\* TEST(Patch, direct_jmp), lines 258-274
EncTestJmp ==
    /\ \E ip \in EncAddrs, addr \in EncAddrs :
         enc' = [who |-> "direct_jmp", ip |-> ip, target |-> addr,
                 skipped |-> address_overflow(addr),
                 out |-> IF address_overflow(addr) THEN NoInsn
                         ELSE ulpatch_jmpq_replace(ip, addr)]
    /\ UNCHANGED <<notenc>>

EncIdle == enc = NoEnc

NextEnc ==
    \/ EncCallReplace
    \/ EncJmpqReplace
    \/ EncTestCall
    \/ EncTestJmp

\* ---- the test program: its functions and where they are loaded
TTWU_FTRACE_RETURN == 1
\* 0xdead1234 returned as an int
ULPATCH_TTWU_RET == -559082956

\* the bytes of try_to_wake_up in the model
FuncLen == 18

Funcs == {"mcount", "try_to_wake_up", "my_direct_func",
          "ulpatch_try_to_wake_up", "_ftrace_mcount"}

\* the program linked at 0x400000, or as a position-independent executable
\* loaded at 0x555555554000
Layouts == {"low", "high"}

Base(l) == IF l = "low" THEN U64(0, 64, 0, 0) ELSE U64(16384, 21845, 21845, 0)

FuncOffset(f) ==
    CASE f = "mcount" -> 3840
      [] f = "try_to_wake_up" -> 4096
      [] f = "my_direct_func" -> 4352
      [] f = "ulpatch_try_to_wake_up" -> 4608
      [] f = "_ftrace_mcount" -> 4864

FuncAddr(l, f) == Add64(Base(l), Small(FuncOffset(f)))

FuncAt(l, a) ==
    IF \E f \in Funcs : FuncAddr(l, f) = a
    THEN CHOOSE f \in Funcs : FuncAddr(l, f) = a
    ELSE "none"

\* push %rbp; mov %rsp,%rbp
Prologue == <<85, 72, 137, 229>>

\* the offset of the call of mcount in a function compiled with -pg
x86_64_func_callq_offset == Len(Prologue)

Entry(l) == FuncAddr(l, "try_to_wake_up")

CallSite(l) == Add64(Entry(l), Small(x86_64_func_callq_offset))

\* what follows the call of mcount in try_to_wake_up
Body ==
    [i \in 1..(FuncLen - x86_64_func_callq_offset - MCOUNT_INSN_SIZE)
        |-> 100 + i]

\* try_to_wake_up as the compiler emitted it
OrigText(l) ==
    Prologue \o ftrace_call_replace(CallSite(l), FuncAddr(l, "mcount")) \o Body

\* ---- what a call of try_to_wake_up runs, decoded from its bytes
Outcome(ran, r, flag, fault) ==
    [ran |-> ran, ret |-> r, flag |-> flag, fault |-> fault]

Fault(ran, flag) == Outcome(ran, 0, flag, TRUE)

\* where a rel32 instruction at address at, with displacement bytes b, goes
Rel32Target(at, b) == Add64(Add64(at, Small(MCOUNT_INSN_SIZE)), SExt32(b))

\* my_direct_func: ret_TTWU = TTWU_FTRACE_RETURN
my_direct_func_forgets(flag) == flag

my_direct_func(flag) == TTWU_FTRACE_RETURN

\* the body of try_to_wake_up: ret = ret_TTWU; ret_TTWU = 0; return ret
try_to_wake_up(ran, flag) ==
    Outcome(Append(ran, "try_to_wake_up"), flag, 0, FALSE)

ulpatch_try_to_wake_up(ran, flag) ==
    Outcome(Append(ran, "ulpatch_try_to_wake_up"), ULPATCH_TTWU_RET, flag,
            FALSE)

\* the functions a call at the mcount site may go to, and what they do to
\* ret_TTWU
Mcounts == {"mcount", "my_direct_func", "_ftrace_mcount"}

Callee(f, flag) == IF f = "my_direct_func" THEN my_direct_func(flag) ELSE flag

\* from the mcount site on
RunSite(t, flag, l) ==
    LET off == x86_64_func_callq_offset
        insn == SubSeq(t, off + 1, off + MCOUNT_INSN_SIZE)
        rest == SubSeq(t, off + MCOUNT_INSN_SIZE + 1, Len(t))
        f == FuncAt(l, Rel32Target(CallSite(l), SubSeq(insn, 2, 5)))
    IN  IF rest # Body THEN Fault(<<>>, flag)
        ELSE IF insn[1] = CALL_INSN_OPCODE
        THEN IF f \in Mcounts
             THEN try_to_wake_up(<<f>>, Callee(f, flag))
             ELSE Fault(<<>>, flag)
        ELSE IF insn = ftrace_nop_replace
        THEN try_to_wake_up(<<>>, flag)
        ELSE Fault(<<>>, flag)

\* a jump from the entry of try_to_wake_up to address a
RunJump(a, flag, l) ==
    IF FuncAt(l, a) = "ulpatch_try_to_wake_up"
    THEN ulpatch_try_to_wake_up(<<>>, flag)
    ELSE Fault(<<>>, flag)

\* a call of try_to_wake_up whose bytes are t, with ret_TTWU = flag
CallTTWU(t, flag, l) ==
    IF t[1] = JMP32_INSN_OPCODE
    THEN RunJump(Rel32Target(Entry(l), SubSeq(t, 2, 5)), flag, l)
    ELSE IF SubSeq(t, 1, Len(arch_jmp_table_jmp)) = arch_jmp_table_jmp
    THEN RunJump(Load64(SubSeq(t, Len(arch_jmp_table_jmp) + 1,
                               sizeof_jmp_table_entry)), flag, l)
    ELSE IF SubSeq(t, 1, x86_64_func_callq_offset) = Prologue
    THEN RunSite(t, flag, l)
    ELSE Fault(<<>>, flag)

\* ---- the tests, in the order of the file
TestOrder == <<"ftrace_direct", "ftrace_object", "ftrace_nop", "direct_jmp",
               "direct_jmp_table">>

FtraceTests == {"ftrace_direct", "ftrace_object", "ftrace_nop"}

\* arg->custom_mcount, or ulpatch_try_to_wake_up; NULL for the NOP
TargetAddr(test, l) ==
    CASE test = "ftrace_direct" -> FuncAddr(l, "my_direct_func")
      [] test = "ftrace_object" -> FuncAddr(l, "_ftrace_mcount")
      [] test = "ftrace_nop" -> Small(0)
      [] OTHER -> FuncAddr(l, "ulpatch_try_to_wake_up")

expect_ret(test) == IF test = "ftrace_direct" THEN TTWU_FTRACE_RETURN ELSE 0

\* the offset in try_to_wake_up of the bytes a test rewrites
SiteOffset(test) ==
    IF test \in FtraceTests THEN x86_64_func_callq_offset ELSE 0

\* the number of bytes a test saves into orig_code
save_size(test) ==
    IF test = "direct_jmp_table" THEN sizeof_jmp_table_entry
    ELSE MCOUNT_INSN_SIZE

\* the number of bytes of the new instruction a test writes
write_size(test) ==
    IF test = "direct_jmp_table" THEN sizeof_jmp_table_entry
    ELSE MCOUNT_INSN_SIZE

\* the number of bytes a test writes back
restore_size_call(test) == MCOUNT_INSN_SIZE

restore_size(test) ==
    IF test = "direct_jmp_table" THEN sizeof_jmp_table_entry
    ELSE MCOUNT_INSN_SIZE

\* the instruction a test writes
NewInsn(test, l) ==
    CASE test \in {"ftrace_direct", "ftrace_object"} ->
            ftrace_call_replace(CallSite(l), TargetAddr(test, l))
      [] test = "ftrace_nop" -> ftrace_nop_replace
      [] test = "direct_jmp" ->
            ulpatch_jmpq_replace(Entry(l), TargetAddr(test, l))
      [] OTHER -> jmp_table_entry(TargetAddr(test, l))

\* the positions of a test, in order
Positions(test) ==
    CASE test \in FtraceTests ->
            <<"call0", "guard", "save", "write", "call", "restore", "return">>
      [] test = "direct_jmp" ->
            <<"guard", "call0", "write", "call", "return">>
      [] OTHER ->
            <<"call0", "save", "write", "call", "restore", "return">>

NextPc(test, at) ==
    LET p == Positions(test)
        i == CHOOSE k \in 1..Len(p) : p[k] = at
    IN  p[i + 1]

\* n bytes of t from offset off on, and t with bytes b written at offset off
Peek(t, off, n) == SubSeq(t, off + 1, off + n)

Poke(t, off, b) ==
    [i \in 1..Len(t) |->
        IF off < i /\ i <= off + Len(b) THEN b[i - off] ELSE t[i]]

\* what a buffer that was never filled may hold
Uninit(n) == {[i \in 1..n |-> 0], [i \in 1..n |-> 204]}

NoCall == [at |-> "none", text |-> <<>>, ran |-> <<>>, ret |-> 0,
           fault |-> FALSE]

\* how the save, the write and the restore of a test went, and how many
\* bytes the save and the write were of
NoSteps == [saved |-> "no", wrote |-> "no", restored |-> "no",
            nsaved |-> 0, nwrote |-> 0]

Done(ok) == IF ok THEN "ok" ELSE "failed"

\* a test begins: open_task, the symbol lookups of lines 87-109 (a lookup
\* that fails ends the test), the locals
PatchStart ==
    /\ ppc = "idle"
    /\ \E i \in (pdone + 1)..Len(TestOrder), found \in BOOLEAN :
         LET test == TestOrder[i] IN
         /\ found \/ test \in FtraceTests
         /\ ptest' = test
         /\ pdone' = i
         /\ ppc' = IF found THEN Positions(test)[1] ELSE "return"
         /\ test_ret' = IF found THEN expect_ret(test) ELSE -1
         /\ p_new' = IF test = "direct_jmp_table" /\ found
                     THEN NewInsn(test, layout) ELSE NoInsn
    /\ p_orig_code' = <<>>
    /\ psteps' = NoSteps
    /\ pre_text' = text
    /\ pcall' = NoCall
    /\ UNCHANGED <<text, ret_TTWU, layout>>
    /\ UNCHANGED <<notpatch>>

\* a call of try_to_wake_up by the test program
DoCall(at) ==
    LET o == CallTTWU(text, ret_TTWU, layout) IN
    /\ pcall' = [at |-> at, text |-> text, ran |-> o.ran, ret |-> o.ret,
                 fault |-> o.fault]
    /\ ret_TTWU' = o.flag

\* lines 117, 278, 324: try_to_wake_up is called before the rewrite
PatchFirstCall ==
    /\ ppc = "call0"
    /\ DoCall("first")
    /\ ppc' = IF pcall'.fault THEN "crashed" ELSE NextPc(ptest, ppc)
    /\ UNCHANGED <<text, layout, ptest, p_orig_code, p_new, test_ret, pdone,
                   pre_text, psteps>>
    /\ UNCHANGED <<notpatch>>

\* lines 120-152 and 258-274: the test ends when the address does not fit
\* four bytes, otherwise the instruction is encoded
PatchGuard ==
    /\ ppc = "guard"
    /\ IF address_overflow(TargetAddr(ptest, layout))
       THEN /\ ppc' = "return"
            /\ test_ret' = expect_ret(ptest)
            /\ p_new' = p_new
       ELSE /\ ppc' = NextPc(ptest, ppc)
            /\ test_ret' = test_ret
            /\ p_new' = NewInsn(ptest, layout)
    /\ UNCHANGED <<text, ret_TTWU, layout, ptest, p_orig_code, pdone, pcall,
                   pre_text, psteps>>
    /\ UNCHANGED <<notpatch>>

\* lines 157-160 and 328-331: memcpy_from_task into orig_code; a failure is
\* logged and orig_code stays as it was, not initialised
PatchSave ==
    /\ ppc = "save"
    /\ \E ok \in BOOLEAN :
         /\ p_orig_code' \in
                IF ok
                THEN {Peek(text, SiteOffset(ptest), save_size(ptest))}
                ELSE Uninit(save_size(ptest))
         /\ psteps' = [psteps EXCEPT !.saved = Done(ok),
                                     !.nsaved = IF ok THEN save_size(ptest)
                                                ELSE 0]
    /\ pre_text' = text
    /\ ppc' = NextPc(ptest, ppc)
    /\ UNCHANGED <<text, ret_TTWU, layout, ptest, p_new, test_ret, pdone,
                   pcall>>
    /\ UNCHANGED <<notpatch>>

\* lines 164-167, 280-283 and 333-336: memcpy_to_task of the new
\* instruction; a failure is logged. Nothing can be copied from a NULL new.
PatchWrite ==
    /\ ppc = "write"
    /\ \E ok \in BOOLEAN :
         LET done == ok /\ p_new # NoInsn IN
         /\ text' = IF done
                    THEN Poke(text, SiteOffset(ptest),
                              SubSeq(p_new, 1, write_size(ptest)))
                    ELSE text
         /\ psteps' = [psteps EXCEPT !.wrote = Done(done),
                                     !.nwrote = IF done THEN write_size(ptest)
                                                ELSE 0]
    /\ ppc' = NextPc(ptest, ppc)
    /\ UNCHANGED <<ret_TTWU, layout, ptest, p_orig_code, p_new, test_ret,
                   pdone, pcall, pre_text>>
    /\ UNCHANGED <<notpatch>>

\* lines 205, 295-299 and 341-345: the call the test is about
PatchCall ==
    /\ ppc = "call"
    /\ DoCall("test")
    /\ test_ret' = IF ptest \in FtraceTests THEN pcall'.ret
                   ELSE IF pcall'.ret # ULPATCH_TTWU_RET THEN -1 ELSE 0
    /\ ppc' = IF pcall'.fault THEN "crashed" ELSE NextPc(ptest, ppc)
    /\ UNCHANGED <<text, layout, ptest, p_orig_code, p_new, pdone, pre_text,
                   psteps>>
    /\ UNCHANGED <<notpatch>>

\* lines 208-211 and 348-351: memcpy_to_task of orig_code to the address the
\* bytes were saved from; a failure is logged
PatchRestore ==
    /\ ppc = "restore"
    /\ \E ok \in BOOLEAN :
         /\ text' = IF ok
                    THEN Poke(text, SiteOffset(ptest),
                              SubSeq(p_orig_code, 1, restore_size(ptest)))
                    ELSE text
         /\ psteps' = [psteps EXCEPT !.restored = Done(ok)]
    /\ ppc' = NextPc(ptest, ppc)
    /\ UNCHANGED <<ret_TTWU, layout, ptest, p_orig_code, p_new, test_ret,
                   pdone, pcall, pre_text>>
    /\ UNCHANGED <<notpatch>>

\* close_task and return
PatchReturn ==
    /\ ppc = "return"
    /\ ppc' = "idle"
    /\ UNCHANGED <<text, ret_TTWU, layout, ptest, p_orig_code, p_new,
                   test_ret, pdone, pcall, pre_text, psteps>>
    /\ UNCHANGED <<notpatch>>

\* a call of try_to_wake_up after a test has returned
LaterCall ==
    /\ ppc = "idle"
    /\ pdone > 0
    /\ DoCall("later")
    /\ UNCHANGED <<text, layout, ptest, ppc, p_orig_code, p_new, test_ret,
                   pdone, pre_text, psteps>>
    /\ UNCHANGED <<notpatch>>

PatchIdle ==
    /\ layout = "low"
    /\ text = OrigText("low")
    /\ ret_TTWU = 0
    /\ ptest = "none" /\ ppc = "idle"
    /\ p_orig_code = <<>> /\ p_new = NoInsn
    /\ test_ret = 0 /\ pdone = 0
    /\ pcall = NoCall /\ pre_text = <<>> /\ psteps = NoSteps

InitPatch ==
    /\ layout \in Layouts
    /\ text = OrigText(layout)
    /\ ret_TTWU = 0
    /\ ptest = "none" /\ ppc = "idle"
    /\ p_orig_code = <<>> /\ p_new = NoInsn
    /\ test_ret = 0 /\ pdone = 0
    /\ pcall = NoCall /\ pre_text = <<>> /\ psteps = NoSteps

NextPatch ==
    \/ PatchStart
    \/ PatchFirstCall
    \/ PatchGuard
    \/ PatchSave
    \/ PatchWrite
    \/ PatchCall
    \/ PatchRestore
    \/ PatchReturn
    \/ LaterCall

\* =================================================================
\*  Part 7: wait_for_stop, statement by statement
\*  (src/src/utils/task.c:1286-1321)
\* =================================================================

\* most stops with a signal wait_for_stop passes on before the target stops
\* with SIGSTOP, SIGTRAP or SIGSEGV or is gone
MaxStops == 3

\* the signals a stop of the target can report
OtherSignals == {"SIGUSR1", "SIGCHLD", "SIGINT"}
StopSignals == {"SIGSTOP", "SIGTRAP", "SIGSEGV"} \cup OtherSignals
\* status = 0: PTRACE_CONT delivers no signal
NoSignal == "0"

WCont(sig, ok) == [call |-> "PTRACE_CONT", sig |-> sig, ok |-> ok, kind |-> "none"]
WWait(kind, sig, ok) == [call |-> "waitpid", sig |-> sig, ok |-> ok, kind |-> kind]

\* lines 1305-1316: what a stop with signal sig makes the loop do
stop_action_no_segv(sig) ==
    IF sig \in {"SIGSTOP", "SIGTRAP"} THEN "break" ELSE "continue"
stop_action(sig) ==
    IF sig \in {"SIGSTOP", "SIGTRAP"} THEN "break"
    ELSE IF sig = "SIGSEGV" THEN "return -1"
    ELSE "continue"

\* line 1319: status after a wait status that is not a stop
WTERMSIG_or_0(kind, sig) == IF kind = "signaled" THEN sig ELSE NoSignal

\* lines 1292-1298: ptrace(PTRACE_CONT, pid, NULL, status); the kernel refuses
\* it with ESRCH when the process is gone, and may refuse it otherwise
wait_for_stop_cont ==
    /\ UNCHANGED notwait
    /\ wpc = "cont"
    /\ \E ok \in (IF texists THEN BOOLEAN ELSE {FALSE}) :
         /\ wlog' = Append(wlog, WCont(wstatus, ok))
         /\ IF ok
            THEN wpc' = "waitpid" /\ wsret' = wsret
            ELSE wpc' = "done" /\ wsret' = -1
    /\ UNCHANGED <<wstatus, texists, wstops>>

\* lines 1300-1319: waitpid and what its status makes the loop do
wait_for_stop_waitpid ==
    /\ UNCHANGED notwait
    /\ wpc = "waitpid"
    /\ \/ \* waitpid fails
          /\ wlog' = Append(wlog, WWait("none", NoSignal, FALSE))
          /\ wpc' = "done" /\ wsret' = -1
          /\ UNCHANGED <<wstatus, texists, wstops>>
       \/ \* the target stopped with a signal
          \E sig \in StopSignals :
             /\ sig \in OtherSignals => wstops < MaxStops
             /\ wlog' = Append(wlog, WWait("stopped", sig, TRUE))
             /\ IF stop_action(sig) = "break"
                THEN /\ wpc' = "done" /\ wsret' = 0
                     /\ UNCHANGED <<wstatus, wstops>>
                ELSE IF stop_action(sig) = "return -1"
                THEN /\ wpc' = "done" /\ wsret' = -1
                     /\ UNCHANGED <<wstatus, wstops>>
                ELSE /\ wstatus' = sig
                     /\ wstops' = wstops + 1
                     /\ wpc' = "cont" /\ wsret' = wsret
             /\ UNCHANGED texists
       \/ \* the target exited, or a signal ended it: it is gone
          \E kind \in {"exited", "signaled"} :
          \E sig \in (IF kind = "signaled" THEN {"SIGKILL"} ELSE {NoSignal}) :
             /\ wlog' = Append(wlog, WWait(kind, sig, TRUE))
             /\ wstatus' = WTERMSIG_or_0(kind, sig)
             /\ texists' = FALSE
             /\ wpc' = "cont" /\ wsret' = wsret
             /\ UNCHANGED wstops

\* lines 1288-1289: status = 0 on entry
InitWait ==
    /\ wpc = "cont" /\ wstatus = NoSignal /\ wsret = 0
    /\ wlog = <<>> /\ texists = TRUE /\ wstops = 0

WaitIdle ==
    /\ wpc = "idle" /\ wstatus = NoSignal /\ wsret = 0
    /\ wlog = <<>> /\ texists = TRUE /\ wstops = 0

NextWait ==
    \/ wait_for_stop_cont
    \/ wait_for_stop_waitpid

\* =================================================================
\*  Part 8: task_open (src/src/utils/task.c:1500-1542)
\* =================================================================

O_CREAT == 64
\* O_RDONLY, O_RDWR, and both with O_CREAT
OpenFlags == {0, 2, O_CREAT, O_CREAT + 2}

\* flags | O_CREAT, on the bits the flags above use
RECURSIVE BitOr(_, _)
BitOr(a, b) ==
    IF a = 0 THEN b
    ELSE IF b = 0 THEN a
    ELSE (IF a % 2 = 1 \/ b % 2 = 1 THEN 1 ELSE 0) + 2 * BitOr(a \div 2, b \div 2)
RECURSIVE BitAnd(_, _)
BitAnd(a, b) ==
    IF a = 0 \/ b = 0 THEN 0
    ELSE (IF a % 2 = 1 /\ b % 2 = 1 THEN 1 ELSE 0) + 2 * BitAnd(a \div 2, b \div 2)

\* the files of the controller: a regular file, a symbolic link to it given
\* by a relative name, a link whose target is missing, and a missing file
Pathnames == {"/opt/patch.o", "cur", "/opt/old", "/opt/none"}
NoPath == ""
\* readlink(2): the content of a symbolic link, failing on anything else
readlink(pathname) ==
    CASE pathname = "cur" -> "/opt/patch.o"
      [] pathname = "/opt/old" -> "/opt/gone.o"
      [] OTHER -> NoPath
\* realpath(3): the canonical name of an existing file
realpath(pathname) ==
    CASE pathname = "/opt/patch.o" -> "/opt/patch.o"
      [] pathname = "cur" -> "/opt/patch.o"
      [] OTHER -> NoPath
\* readlink, then realpath of what it returned
canonical(pathname) ==
    IF readlink(pathname) = NoPath THEN NoPath ELSE realpath(readlink(pathname))

\* line 1509: if (!(flags|O_CREAT))
takes_canon_branch(flags) == BitOr(flags, O_CREAT) = 0

\* where the remote mmap may put an allocation
ScratchAddrs == {7, 9}

ORemote(nr, a, l, str, fl) == [nr |-> nr, addr |-> a, len |-> l, path |-> str, flags |-> fl]

\* lines 1509-1522
task_open_canon ==
    /\ UNCHANGED notopen
    /\ opc = "enter"
    /\ IF takes_canon_branch(oin.flags)
       THEN IF canonical(opathname) = NoPath
            THEN opc' = "done" /\ oret' = -1 /\ UNCHANGED opathname
            ELSE opc' = "malloc" /\ opathname' = canonical(opathname) /\ UNCHANGED oret
       ELSE opc' = "malloc" /\ UNCHANGED <<opathname, oret>>
    /\ UNCHANGED <<oin, oaddr, olen, omem, oresult, olog>>

\* lines 1523-1525: remote_filename_len = strlen(pathname) + 1; task_malloc
task_open_malloc ==
    /\ UNCHANGED notopen
    /\ opc = "malloc"
    /\ olen' = Len(opathname) + 1
    /\ \E sret \in {0, -ESRCH} :
       \E v \in (IF sret < 0 THEN Garbage ELSE ScratchAddrs \cup {MAP_FAILED, -12}) :
         /\ oaddr' = task_malloc(sret, v)
         /\ olog' = Append(olog, ORemote(NR_mmap, oaddr', olen', NoPath, 0))
    /\ opc' = "copy"
    /\ UNCHANGED <<oin, opathname, omem, oresult, oret>>

\* line 1527: memcpy_to_task, its result not looked at
task_open_copy ==
    /\ UNCHANGED notopen
    /\ opc = "copy"
    /\ \E ok \in (IF oaddr \in ScratchAddrs THEN BOOLEAN ELSE {FALSE}) :
         omem' = IF ok THEN opathname ELSE omem
    /\ opc' = "open"
    /\ UNCHANGED <<oin, opathname, oaddr, olen, oresult, olog, oret>>

\* lines 1529-1537: task_syscall(__NR_open, remote_fileaddr, flags, mode); the
\* target's kernel reads the name at remote_fileaddr; result keeps whatever
\* it held when task_syscall fails
task_open_syscall ==
    /\ UNCHANGED notopen
    /\ opc = "open"
    /\ olog' = Append(olog, ORemote(NR_open, oaddr, 0, omem, oin.flags))
    /\ \E sret \in {0, -ESRCH} :
       \E v \in (IF sret < 0 THEN Garbage ELSE {3, -2}) :
         oresult' = task_open(sret, v)
    /\ opc' = "free"
    /\ UNCHANGED <<oin, opathname, oaddr, olen, omem, oret>>

\* lines 1539-1541: task_free(task, remote_fileaddr, remote_filename_len);
\* return result
task_open_free ==
    /\ UNCHANGED notopen
    /\ opc = "free"
    /\ olog' = Append(olog, ORemote(NR_munmap, oaddr, olen, NoPath, 0))
    /\ oret' = oresult
    /\ opc' = "done"
    /\ UNCHANGED <<oin, opathname, oaddr, olen, omem, oresult>>

OpenRest ==
    /\ oaddr = 0 /\ olen = 0 /\ omem = NoPath /\ oresult = 0
    /\ olog = <<>> /\ oret = 0

InitOpen ==
    /\ oin \in [pathname : Pathnames, flags : OpenFlags]
    /\ opathname = oin.pathname
    /\ opc = "enter"
    /\ OpenRest

OpenIdle ==
    /\ oin = [pathname |-> NoPath, flags |-> 0]
    /\ opathname = NoPath
    /\ opc = "idle"
    /\ OpenRest

NextOpen ==
    \/ task_open_canon
    \/ task_open_malloc
    \/ task_open_copy
    \/ task_open_syscall
    \/ task_open_free

\* =================================================================
\*  Part 9: vma_peek_phdr (src/src/utils/task.c:193-412)
\* =================================================================

\* the program of the target, and the files the VMA may map
TaskExe == "/usr/bin/demo"
VmaNames == {TaskExe, "/usr/lib64/libc.so.6", "/usr/lib64/libpthread.so.0",
             "/usr/lib64/libfoo.so", "/opt/lib-helper", "/opt/helper",
             "[stack]"}

\* basename(3): what follows the last slash
basename(name) ==
    LET slashes == {i \in 1..Len(name) : SubSeq(name, i, i) = "/"}
    IN  IF slashes = {} THEN name
        ELSE SubSeq(name, (CHOOSE i \in slashes : \A j \in slashes : j <= i) + 1, Len(name))

\* !strncmp(str, prefix, strlen(prefix))
strncmp0(str, prefix) ==
    Len(str) >= Len(prefix) /\ SubSeq(str, 1, Len(prefix)) = prefix

\* !strncmp(name + strlen(name) - 3, ".so", 3)
ends_so(name) == Len(name) >= 3 /\ SubSeq(name, Len(name) - 2, Len(name)) = ".so"

\* lines 193-225
get_vma_type(exe, name) ==
    IF name = exe THEN "VMA_SELF"
    ELSE IF strncmp0(basename(name), "libc") \/ strncmp0(basename(name), "libssp")
         THEN "VMA_LIBC"
    ELSE IF strncmp0(basename(name), "libelf") THEN "VMA_LIBELF"
    ELSE IF name = "[heap]" THEN "VMA_HEAP"
    ELSE IF strncmp0(basename(name), "ld-linux") THEN "VMA_LD"
    ELSE IF name = "[stack]" THEN "VMA_STACK"
    ELSE IF name = "[vvar]" THEN "VMA_VVAR"
    ELSE IF name = "[vdso]" THEN "VMA_VDSO"
    ELSE IF name = "[vsyscall]" THEN "VMA_VSYSCALL"
    ELSE IF strncmp0(basename(name), "lib") THEN "VMA_LIB_DONT_KNOWN"
    ELSE IF Len(name) = 0 THEN "VMA_ANON"
    ELSE "VMA_NONE"

\* lines 227-253: the tests are made on vma->name_, the name as
\* /proc/PID/maps gives it
elf_vma_is_interp_exception(name) ==
    \/ strncmp0(name, "libc") /\ ends_so(name)
    \/ strncmp0(name, "libssp")
    \/ strncmp0(name, "libpthread") /\ ends_so(name)
    \/ strncmp0(name, "libdl") /\ ends_so(name)

\* ALIGN_DOWN(x, a) for a power of two a
ALIGN_DOWN(x, a) == x - (x % a)

Phdr(t, off, vaddr, align) ==
    [p_type |-> t, p_offset |-> off, p_vaddr |-> vaddr, p_align |-> align]
\* the program headers an image may have: PT_INTERP, a first PT_LOAD, one
\* with p_vaddr = p_offset and one with p_vaddr = p_offset + 0x1000
\* (p_offset 0x1f58d0, p_vaddr 0x1f68d0)
PhdrKinds == {Phdr("PT_INTERP", 792, 792, 1),
              Phdr("PT_LOAD", 0, 0, 4096),
              Phdr("PT_LOAD", 4096, 4096, 4096),
              Phdr("PT_LOAD", 2054352, 2058448, 4096)}
\* e_phnum is at most MaxPhnum
MaxPhnum == 2
PhdrTables ==
    {t \in UNION {[1..n -> PhdrKinds] : n \in 0..MaxPhnum} :
        \A i, j \in DOMAIN t : i < j => t[i] # t[j]}

\* the file offsets of the sibling VMAs of the leader: 0x1000 and 0x1f5000
SiblingOffsets == {4096, 2052096}
\* where the leader is mapped
VmaStart == 4194304
\* the initial lowest_vaddr, above every address of the model
ULONG_MAX == 2147483647

sizeof_ehdr == 64
sizeof_phdr == 56

\* memcpy_from_task(...) < size, the int converted to the unsigned size
read_failed(n, size) == size_t_lt(n, size)

\* program header tables malloc'ed memory may hold when the read of the
\* table failed without being noticed
StalePhdrs(n) == {t \in PhdrTables : Len(t) = n}

\* the loop of lines 349-356: a PT_INTERP that is no exception
has_interp_no_exception(name, phdrs) ==
    \E i \in DOMAIN phdrs :
        phdrs[i].p_type = "PT_INTERP" /\ ~elf_vma_is_interp_exception(name)

\* lines 337-363
classify(type, name, e_type, phdrs) ==
    \/ (IF e_type # "ET_DYN" THEN FALSE
        ELSE ~has_interp_no_exception(name, phdrs))
    \/ type = "VMA_LIBC"
    \/ type = "VMA_LIB_DONT_KNOWN"

\* lines 365-393, the loop over the headers: lowest_vaddr after i headers
RECURSIVE lowest_vaddr(_, _)
lowest_vaddr(phdrs, i) ==
    IF i = 0 THEN ULONG_MAX
    ELSE LET low == lowest_vaddr(phdrs, i - 1)
         IN  IF phdrs[i].p_type = "PT_LOAD"
             THEN (IF low <= phdrs[i].p_vaddr THEN low ELSE phdrs[i].p_vaddr)
             ELSE low
\* and the voffset of the siblings after i headers
RECURSIVE voffsets(_, _)
voffsets(phdrs, i) ==
    IF i = 0 THEN [o \in SiblingOffsets |-> 0]
    ELSE LET before == voffsets(phdrs, i - 1)
             off == ALIGN_DOWN(phdrs[i].p_vaddr, phdrs[i].p_align)
         IN  IF phdrs[i].p_type = "PT_LOAD"
             THEN [o \in SiblingOffsets |->
                     IF o = off THEN phdrs[i].p_vaddr ELSE before[o]]
             ELSE before

PeekOut(r, elf, share, lo, vo) ==
    [ret |-> r, is_elf |-> elf, is_share_lib |-> share, load_offset |-> lo,
     voffset |-> vo]
NoPeek == PeekOut(0, FALSE, FALSE, 0, [o \in SiblingOffsets |-> 0])

\* lines 257-412; v is the VMA and the image, n1 and n2 what the reads
\* returned, phdrs the table as the controller holds it after the second read
vma_peek_phdr(v, n1, n2, phdrs) ==
    IF v.type \in {"VMA_VVAR", "VMA_STACK", "VMA_VSYSCALL"} THEN NoPeek
    ELSE IF read_failed(n1, sizeof_ehdr) THEN PeekOut(-1, FALSE, FALSE, 0, NoPeek.voffset)
    \* ehdr = {} stays as it is when nothing was read
    ELSE IF n1 < 0 \/ ~v.magic THEN NoPeek
    ELSE IF v.e_phnum * sizeof_phdr = 0 THEN NoPeek
    ELSE IF read_failed(n2, v.e_phnum * sizeof_phdr)
         THEN PeekOut(-1, FALSE, FALSE, 0, NoPeek.voffset)
    ELSE IF lowest_vaddr(phdrs, v.e_phnum) = ULONG_MAX
         THEN PeekOut(-1, FALSE, FALSE, 0, voffsets(phdrs, v.e_phnum))
    ELSE PeekOut(0, TRUE, classify(v.type, v.name, v.e_type, phdrs),
                 v.start - lowest_vaddr(phdrs, v.e_phnum),
                 voffsets(phdrs, v.e_phnum))

PeekVmas ==
    {[name |-> n, type |-> get_vma_type(TaskExe, n), start |-> VmaStart,
      magic |-> m, e_type |-> e, e_phnum |-> Len(t), phdrs |-> t] :
        n \in VmaNames, m \in BOOLEAN, e \in {"ET_EXEC", "ET_DYN"}, t \in PhdrTables}

NoRead == [n1 |-> 0, n2 |-> 0]

vma_peek_phdr_call ==
    /\ UNCHANGED notpeek
    /\ pk_pc = "call"
    /\ \E n1 \in {sizeof_ehdr, sizeof_ehdr \div 2, -ESRCH} :
       \E n2 \in {pk_vma.e_phnum * sizeof_phdr, sizeof_phdr \div 2, -ESRCH} :
       \E phdrs \in (IF n2 < 0 THEN StalePhdrs(pk_vma.e_phnum) ELSE {pk_vma.phdrs}) :
         /\ pk_read' = [n1 |-> n1, n2 |-> n2]
         /\ pk_out' = vma_peek_phdr(pk_vma, n1, n2, phdrs)
    /\ pk_pc' = "done"
    /\ UNCHANGED pk_vma

InitPeek ==
    /\ pk_vma \in PeekVmas
    /\ pk_pc = "call"
    /\ pk_read = NoRead
    /\ pk_out = NoPeek

PeekIdle ==
    /\ pk_vma = [name |-> "", type |-> "VMA_ANON", start |-> 0, magic |-> FALSE,
                 e_type |-> "ET_EXEC", e_phnum |-> 0, phdrs |-> <<>>]
    /\ pk_pc = "idle"
    /\ pk_read = NoRead
    /\ pk_out = NoPeek

NextPeek == vma_peek_phdr_call

\* =================================================================
\*  Part 10: the symbol tree (src/src/utils/task.c:485-714, 983-988)
\* =================================================================

\* most entries of one symbol table
MaxSyms == 2

SymNames == {"", "f"}
\* an ELF symbol as far as the loaders look at it
ElfSyms == [name : SymNames, undef : BOOLEAN]
SymTables == UNION {[1..n -> ElfSyms] : n \in 0..MaxSyms}

\* is_undef_symbol: st_shndx == SHN_UNDEF
is_undef_symbol(esym) == esym.undef

\* a struct symbol: the name, the Sym record and the VMA it came from
Symbol(esym, v) == [name |-> esym.name, undef |-> esym.undef, vma |-> v]

\* rb_insert_node with cmp_symbol_name: the node already in the tree under
\* that name, if there is one, and then the tree is left as it is
rb_insert_node(tree, esym) ==
    IF \E t \in tree : t.name = esym.name THEN tree ELSE tree \cup {esym}

\* lines 529-530: what load_self_vma_symbols skips
self_skips(esym) == is_undef_symbol(esym)
\* line 686: what vma_load_all_symbols skips
dyn_skips(esym) == is_undef_symbol(esym) \/ Len(esym.name) = 0

\* the loops of lines 523-547 and 679-705 over the first n entries of a
\* table: tree and log afterwards; a rejected symbol is freed, not linked
RECURSIVE link_all(_, _, _, _, _, _)
link_all(tree, log_, table, n, v, self) ==
    IF n = 0 THEN [tree |-> tree, log |-> log_]
    ELSE LET before == link_all(tree, log_, table, n - 1, v, self)
             esym == table[n]
         IN  IF (IF self THEN self_skips(esym) ELSE dyn_skips(esym))
             THEN before
             ELSE [tree |-> rb_insert_node(before.tree, Symbol(esym, v)),
                   log |-> Append(before.log, Symbol(esym, v))]

\* the ELF images of a task: the program itself, whose symbols come from the
\* file on disk, and libraries, whose symbols are read from their memory
SymVma(type, dyn, table) == [type |-> type, dyn |-> dyn, table |-> table]
NoDupNames(table) ==
    \A i, j \in DOMAIN table : i # j => table[i].name # table[j].name
SelfVmas == {SymVma("VMA_SELF", "none", t) : t \in {u \in SymTables : NoDupNames(u)}}
LibVmas == {SymVma("VMA_LIB_DONT_KNOWN", d, t) :
              d \in {"none", "ok", "bad_syment"}, t \in SymTables}
SymVmaLists ==
    {<<a, b>> : a \in SelfVmas, b \in LibVmas} \cup
    {<<b, a>> : a \in SelfVmas, b \in LibVmas}

\* what the controller holds of the dynamic section after
\* memcpy_from_task returned n (line 594): the section when n is its size,
\* whatever the malloc'ed buffer held when n is negative, which the test
\* err < phdr->p_memsz lets through
DynSeen(v, n) ==
    IF n < 0 THEN {[dyn |-> d, table |-> t] : d \in {"ok", "bad_syment"}, t \in SymTables}
    ELSE {[dyn |-> v.dyn, table |-> v.table]}

\* lines 552-714 called on the VMA number sy_i + 1 of the list
vma_load_all_symbols ==
    /\ UNCHANGED notsym
    /\ sy_i < Len(sy_vmas)
    /\ sy_i' = sy_i + 1
    /\ LET v == sy_vmas[sy_i + 1] IN
       IF v.type = "VMA_SELF"
       THEN LET r == link_all(sy_tree, sy_log, v.table, Len(v.table), sy_i + 1, TRUE)
            IN  sy_tree' = r.tree /\ sy_log' = r.log
       ELSE IF v.dyn = "none"
       THEN UNCHANGED <<sy_tree, sy_log>>
       ELSE \E n1 \in {1, 0, -ESRCH}, n2 \in {1, 0, -ESRCH} :
            \E seen \in DynSeen(v, n1) :
               \* 1: the whole range was read, 0: less than that
               IF n1 = 0 \/ seen.dyn = "bad_syment" \/ n2 = 0
               THEN UNCHANGED <<sy_tree, sy_log>>
               \* the buffer was zeroed (line 643): every entry is undefined
               ELSE IF n2 < 0
               THEN UNCHANGED <<sy_tree, sy_log>>
               ELSE LET r == link_all(sy_tree, sy_log, seen.table, Len(seen.table),
                                      sy_i + 1, FALSE)
                    IN  sy_tree' = r.tree /\ sy_log' = r.log
    /\ UNCHANGED sy_vmas

InitSym ==
    /\ sy_vmas \in SymVmaLists
    /\ sy_i = 0 /\ sy_tree = {} /\ sy_log = <<>>

SymIdle ==
    /\ sy_vmas = <<>>
    /\ sy_i = 0 /\ sy_tree = {} /\ sy_log = <<>>

NextSym == vma_load_all_symbols

\* =================================================================
\*  Part 11: init_patch, delete_patch and free_task on one task
\*  (src/tests/patch/ftrace.c:17-63, src/src/patch/patch.h:26-86,
\*   src/src/utils/task.c:1054-1079)
\* =================================================================

\* most calls of init_patch before delete_patch
MaxPatches == 2

\* how one call of init_patch ends: all six steps done, or the step that
\* failed: staging (1), a remote syscall of the mmap (2), the resolving of
\* an undefined symbol (4), a relocation (5)
PatchOutcomes == {"ok", "Io", "RemoteSyscall", "UndefinedSymbol", "UnsupportedReloc"}

\* struct load_info: target_hdr, len, patch_path
LoadInfo(base, len, file) == [target_hdr |-> base, len |-> len, patch_path |-> file]

\* where the target's kernel puts the mapping of the n-th patch
PatchBase(n) == 10 * n

LoadState(r, staged, maps_, infos) ==
    [ret |-> r, staged |-> staged, maps |-> maps_, infos |-> infos]

\* init_patch: the steps in order, stopping at the one that fails; the
\* load-info is registered by the last step
init_patch(staged, maps_, infos, file, len, outcome) ==
    LET base == PatchBase(file)
    IN  CASE outcome = "Io" -> LoadState(-1, staged, maps_, infos)
          [] outcome = "RemoteSyscall" ->
                LoadState(-1, staged \cup {file}, maps_, infos)
          [] outcome \in {"UndefinedSymbol", "UnsupportedReloc"} ->
                LoadState(-1, staged \cup {file}, maps_ \cup {Mapping(base, len)}, infos)
          [] OTHER ->
                LoadState(0, staged \cup {file}, maps_ \cup {Mapping(base, len)},
                          Append(infos, LoadInfo(base, len, file)))

\* the order in which delete_patch visits the load-infos
delete_order_forward(infos) == infos
delete_order(infos) == [i \in 1..Len(infos) |-> infos[Len(infos) + 1 - i]]

\* delete_patch on the load-infos in the order given: task_munmap of each,
\* which the target may refuse for those in failing, then the file of each
\* is closed and removed
RECURSIVE unmap_all(_, _, _)
unmap_all(maps_, order, failing) ==
    IF order = <<>> THEN maps_
    ELSE unmap_all(IF Head(order) \in failing THEN maps_
                   ELSE kernel_munmap(maps_, Head(order).target_hdr, Head(order).len),
                   Tail(order), failing)
delete_patch_unlinks(staged, infos) ==
    staged \ {infos[i].patch_path : i \in DOMAIN infos}

\* free_task's rmdir of map_files: only an empty directory is removed
rmdir_map_files_staged(d, staged) == IF staged = {} THEN rmdir_map_files(d) ELSE d
\* free_task, lines 1054-1079, with files in map_files
free_task_proc_staged(d, staged) ==
    rmdir_pid(rmdir_map_files_staged(unlink_comm(d), staged))

OpenedDir == [pid |-> TRUE, comm |-> TRUE, map_files |-> TRUE]
NoHist == [infos |-> <<>>, failed |-> FALSE]

\* tests/patch/ftrace.c:43: init_patch(task, object)
ld_init_patch ==
    /\ UNCHANGED notload
    /\ ld_pc = "opened"
    /\ Len(ld_rets) < MaxPatches
    /\ \E outcome \in PatchOutcomes, len \in 1..ObjLen :
         LET r == init_patch(ld_staged, ld_maps, ld_infos, Len(ld_rets) + 1, len, outcome)
         IN  /\ ld_staged' = r.staged
             /\ ld_maps' = r.maps
             /\ ld_infos' = r.infos
             /\ ld_rets' = Append(ld_rets, r.ret)
             /\ ld_hist' = [infos |-> r.infos,
                            failed |-> ld_hist.failed \/ outcome # "ok"]
    /\ UNCHANGED <<ld_pc, ld_dir, ld_log, ld_status>>

\* tests/patch/ftrace.c:47: delete_patch(task)
ld_delete_patch ==
    /\ UNCHANGED notload
    /\ ld_pc = "opened"
    /\ ld_rets # <<>>
    /\ \E failing \in SUBSET {ld_infos[i] : i \in DOMAIN ld_infos} :
         /\ ld_log' = [i \in DOMAIN ld_infos |->
                         Mapping(delete_order(ld_infos)[i].target_hdr,
                                 delete_order(ld_infos)[i].len)]
         /\ ld_maps' = unmap_all(ld_maps, delete_order(ld_infos), failing)
         /\ ld_hist' = [ld_hist EXCEPT !.failed = @ \/ failing # {}]
    /\ ld_staged' = delete_patch_unlinks(ld_staged, ld_infos)
    /\ ld_infos' = <<>>
    /\ ld_pc' = "deleted"
    /\ UNCHANGED <<ld_dir, ld_rets, ld_status>>

\* tests/patch/ftrace.c:49-54: the target is let go and waited for; it ends
\* with status 0 when no remote syscall failed on it, and with that or with
\* a fault when one did (C1, C2)
ld_waitpid ==
    /\ UNCHANGED notload
    /\ ld_pc = "deleted"
    /\ ld_status' \in (IF ld_hist.failed THEN {0, 139} ELSE {0})
    /\ ld_pc' = "waited"
    /\ UNCHANGED <<ld_dir, ld_staged, ld_maps, ld_infos, ld_rets, ld_log, ld_hist>>

\* tests/patch/ftrace.c:55: free_task(task)
ld_free_task ==
    /\ UNCHANGED notload
    /\ ld_pc = "waited"
    /\ ld_dir' = free_task_proc_staged(ld_dir, ld_staged)
    /\ ld_pc' = "freed"
    /\ UNCHANGED <<ld_staged, ld_maps, ld_infos, ld_rets, ld_log, ld_hist, ld_status>>

LoadRest ==
    /\ ld_staged = {} /\ ld_maps = {} /\ ld_infos = <<>> /\ ld_rets = <<>>
    /\ ld_log = <<>> /\ ld_hist = NoHist /\ ld_status = 0

\* after open_task(pid, FTO_PROC)
InitLoad == ld_pc = "opened" /\ ld_dir = OpenedDir /\ LoadRest

LoadIdle == ld_pc = "idle" /\ ld_dir = NoDir /\ LoadRest

NextLoad ==
    \/ ld_init_patch
    \/ ld_delete_patch
    \/ ld_waitpid
    \/ ld_free_task

\* =================================================================
\*  The specifications
\* =================================================================

SysIdle ==
    /\ tregs = Regs("user", 0, 0, 0)
    /\ tmem = "text1"
    /\ executed = NoExec
    /\ pc = "idle"
    /\ old_regs = NoRegs /\ regs = NoRegs /\ syscall_regs = NoRegs
    /\ orig_code = "text1"
    /\ ret = 0 /\ res = <<>>
    /\ installed = FALSE /\ path = "none" /\ log = <<>>
    /\ pre_regs = NoRegs /\ pre_mem = "text1"
    /\ req = [nr |-> 0, args |-> 0]
    /\ wrapper = "none" /\ plan = <<>>
    /\ sys_ret = 0 /\ sys_res = <<>> /\ wret = 0
    /\ calls = 0

TaskIdle == maps = <<>> /\ NoTasks

\* the parts after the patch tests, idle
MoreIdle == WaitIdle /\ OpenIdle /\ PeekIdle /\ SymIdle /\ LoadIdle

\* task_syscall and its wrappers on one stopped target
InitSpecSys == InitSys /\ TaskIdle /\ InitSpan /\ VmaIdle /\ CtlIdle
                /\ EncIdle /\ PatchIdle /\ MoreIdle
SpecSys == InitSpecSys /\ [][NextSys]_vars

\* two controllers opening, updating and freeing tasks on one pid
InitSpecTask == SysIdle /\ InitTask /\ InitSpan /\ VmaIdle /\ CtlIdle
                /\ EncIdle /\ PatchIdle /\ MoreIdle
SpecTask == InitSpecTask /\ [][NextTask]_vars

\* the VMA tree and the span search
InitSpecSpan == SysIdle /\ TaskIdle /\ InitSpan /\ VmaIdle /\ CtlIdle
                /\ EncIdle /\ PatchIdle /\ MoreIdle
SpecSpan == InitSpecSpan /\ [][NextSpan]_vars

\* reading /proc/PID/maps into the tree and resolving symbols
InitSpecVma == SysIdle /\ TaskIdle /\ InitSpan /\ VmaIdle /\ CtlIdle
                /\ EncIdle /\ PatchIdle /\ MoreIdle
SpecVma == InitSpecVma /\ [][NextVma]_vars

\* the controller operations on one target
InitSpecCtl == SysIdle /\ TaskIdle /\ InitSpan /\ VmaIdle /\ CtlIdle
                /\ EncIdle /\ PatchIdle /\ MoreIdle
SpecCtl == InitSpecCtl /\ [][NextCtl]_vars

\* the x86-64 encoders applied to addresses
InitSpecEnc == SysIdle /\ TaskIdle /\ InitSpan /\ VmaIdle /\ CtlIdle
               /\ EncIdle /\ PatchIdle /\ MoreIdle
SpecEnc == InitSpecEnc /\ [][NextEnc]_vars

\* the patch tests, run in the order of the file on one process
InitSpecPatch == SysIdle /\ TaskIdle /\ InitSpan /\ VmaIdle /\ CtlIdle
                 /\ EncIdle /\ InitPatch /\ MoreIdle
SpecPatch == InitSpecPatch /\ [][NextPatch]_vars

\* the parts before wait_for_stop, idle
OldIdle == SysIdle /\ TaskIdle /\ InitSpan /\ VmaIdle /\ CtlIdle
           /\ EncIdle /\ PatchIdle

\* wait_for_stop on a traced target; the loop is a sequential program, so each
\* of its statements is eventually executed
InitSpecWait == OldIdle /\ InitWait /\ OpenIdle /\ PeekIdle /\ SymIdle
               /\ LoadIdle
SpecWait == InitSpecWait /\ [][NextWait]_vars /\ WF_vars(NextWait)

\* one call of task_open
InitSpecOpen == OldIdle /\ WaitIdle /\ InitOpen /\ PeekIdle /\ SymIdle
               /\ LoadIdle
SpecOpen == InitSpecOpen /\ [][NextOpen]_vars

\* vma_peek_phdr applied to one VMA
InitSpecPeek == OldIdle /\ WaitIdle /\ OpenIdle /\ InitPeek /\ SymIdle
               /\ LoadIdle
SpecPeek == InitSpecPeek /\ [][NextPeek]_vars

\* open_task with FTO_VMA_ELF_SYMBOLS loading the symbols of each VMA
InitSpecSym == OldIdle /\ WaitIdle /\ OpenIdle /\ PeekIdle /\ InitSym
               /\ LoadIdle
SpecSym == InitSpecSym /\ [][NextSym]_vars

\* init_patch, delete_patch, the end of the target and free_task
InitSpecLoad == OldIdle /\ WaitIdle /\ OpenIdle /\ PeekIdle /\ SymIdle
                /\ InitLoad
SpecLoad == InitSpecLoad /\ [][NextLoad]_vars

\* =================================================================
\*  The claims
\* =================================================================

\* C1: whenever task_syscall has returned, on whatever path, the bytes at
\* libc_vma->start equal the bytes that were there when it was called.
C1_ScratchRestored == pc = "ret" => tmem = pre_mem

\* two register sets agree except for the return register
SameButRet(r1, r2) == [r1 EXCEPT !.ax = 0] = [r2 EXCEPT !.ax = 0]

\* C2: when task_syscall has returned on the success path, or after a failure
\* of wait_for_stop or of the PTRACE_GETREGS that follows it, the target's
\* registers equal those it had at entry, except for the return register.
C2_RegsRestored ==
    (pc = "ret" /\ path \in {"ok", "wait_fail", "getregs2_fail"})
        => SameButRet(tregs, pre_regs)

\* the steps of the log that C3 orders (the read of the result is not one)
StepsOf(l) ==
    LET kept == SelectSeq(l, LAMBDA e : e[1] # "get_result")
    IN  [i \in 1..Len(kept) |-> kept[i][1]]
Forward == <<"save_regs", "save_scratch", "write_syscall", "set_regs", "cont",
             "wait_stop">>
IsForward(x) == \E i \in 1..Len(Forward) : Forward[i] = x
\* what has to be undone, last done first
Undo(l) ==
    IF \E i \in 1..Len(l) : l[i] = <<"set_regs", TRUE>>
    THEN <<"restore_regs", "restore_scratch">>
    ELSE IF \E i \in 1..Len(l) : l[i][1] = "write_syscall"
    THEN <<"restore_scratch">>
    ELSE <<>>

\* C3: when task_syscall has returned, the steps it issued are a prefix of
\* save registers, save scratch, write syscall, set registers, continue,
\* wait, followed by the undoing of what was done: the registers restored
\* (if the new ones were set), then the scratch bytes restored; a call that
\* returns 0 issued all of them.
C3_Order ==
    pc = "ret" =>
        LET st == StepsOf(log)
            k  == Len(SelectSeq(st, IsForward))
        IN  /\ st = SubSeq(Forward, 1, k) \o Undo(log)
            /\ ret = 0 => k = Len(Forward)

\* C4: when task_syscall returns 0, *res is the result of the target running
\* the requested syscall with the requested arguments (its pid for getpid);
\* when it returns a negative value *res is not written.
C4_Result ==
    pc = "ret" =>
        /\ ret = 0 =>
              /\ executed.kind = "syscall"
              /\ executed.nr = req.nr /\ executed.args = req.args
              /\ res = <<executed.result>>
              /\ req.nr = NR_getpid => res = <<TargetPid>>
        /\ ret < 0 => res = <<>>

\* C5: when a wrapper has returned and its task_syscall returned a negative
\* value or the target-side result was a negative errno, the wrapper's
\* return value is negative.
C5_FailureSurfaced ==
    (/\ pc = "wreturned"
     /\ wrapper \in Wrappers \ {"task_syscall"}
     /\ \/ sys_ret < 0
        \/ sys_res # <<>> /\ sys_res[1] < 0)
        => wret < 0

\* C6: every open task has a libc_vma and a stack, also after any number
\* of update_task_vmas calls.
C6_LibcStackNonNull ==
    \A c \in Controllers :
        task[c].state = "open" => task[c].libc_vma # 0 /\ task[c].stack # 0

\* /proc/PID/maps has no executable libc line or no [stack] line
MissingVma(m) == FirstLine(m, IsLibcText) = 0 \/ FirstLine(m, IsStack) = 0

\* C7: an open_task on a target without an executable libc mapping or
\* without a [stack] mapping returns NULL, leaves the task out of
\* tasks_list, reads nothing through the NULL libc_vma and removes no entry
\* of the work directory that existed before the call.
C7_OpenFailsCleanly ==
    (ev.op = "open_task" /\ MissingVma(maps)) =>
        /\ ~ev.ok
        /\ ~task[ev.c].listed
        /\ ~ev.null_access
        /\ ~ev.foreign

\* C8: right after free_task of a task that open_task opened with FTO_PROC
\* (free_task read no NULL libc_vma), ROOT_DIR/<pid>/comm,
\* ROOT_DIR/<pid>/map_files and ROOT_DIR/<pid> do not exist, proc_mem_fd is
\* closed and the task is not in tasks_list.
C8_NoResidue ==
    (ev.op = "free_task" /\ "PROC" \in ev.flags /\ ~ev.null_access) =>
        /\ dir = NoDir
        /\ ~task[ev.c].fd_open
        /\ ~task[ev.c].listed

\* a free_task of a task opened with FTO_PROC has just run
C8_Witness ==
    /\ ev.op = "free_task" /\ "PROC" \in ev.flags /\ ~ev.null_access
    /\ task[ev.c].state = "none"

\* the controllers whose open task was opened with FTO_PROC
Holders == {c \in Controllers : task[c].state = "open" /\ "PROC" \in task[c].flags}

\* C9: at most one open task holds ROOT_DIR/<pid> at a time, and while one
\* holds it the directory and its comm file exist.
C9_Exclusive ==
    /\ Cardinality(Holders) <= 1
    /\ Holders # {} => dir.pid /\ dir.comm

\* the least element of a non-empty set of integers
Least(S) == CHOOSE x \in S : \A y \in S : x <= y

\* C10: find_vma_span_area returns the end of the lowest VMA whose successor
\* starts at least size bytes after that end, and 0 when there is none; with
\* [0x400000,0x401000) and [0x500000,0x501000) it returns 0x401000 for size
\* 0x80000 and 0 for size 0x200000.
C10_SpanResult ==
    span.called =>
        LET n == Len(vmas_rb)
            fits == {i \in 1..(n - 1) :
                        vmas_rb[i + 1].start - vmas_rb[i].end >= span.size}
        IN  /\ span.result = IF fits = {} THEN 0 ELSE vmas_rb[Least(fits)].end
            /\ vmas_rb = <<Vma(4194304, 4198400), Vma(5242880, 5246976)>> =>
                  /\ span.size = 524288 => span.result = 4198400
                  /\ span.size = 2097152 => span.result = 0

\* the span search has run on the two VMAs of the example, with size 0x80000
C10_Witness ==
    /\ span.called
    /\ vmas_rb = <<Vma(4194304, 4198400), Vma(5242880, 5246976)>>
    /\ span.size = 524288
    /\ span.result = 4198400

\* the VMAs of the tree as a set
VmaSet == {vmas[i] : i \in 1..Len(vmas)}

\* the addresses looked up: every start, every last byte, every end
Probes == {0} \cup UNION {{v.start, v.end - 1, v.end} : v \in VmaSet}

\* every line of the content read fits one fgets
ShortLines == \A i \in 1..Len(rd.m) : rd.m[i].tail = "none"

\* C11: after read_task_vmas / update_task_vmas on any content of
\* /proc/PID/maps the tree holds pairwise disjoint intervals [start, end)
\* in the order of their starts, and find_vma(addr) returns the one VMA with
\* start <= addr < end, or NULL when there is none.
C11_TreeIntervals ==
    rd.called =>
        /\ \A i \in 1..Len(vmas) : vmas[i].start < vmas[i].end
        /\ \A i, j \in 1..Len(vmas) : i < j => vmas[i].end <= vmas[j].start
        /\ \A a \in Probes :
             find_vma(vmas, a) =
                 IF \E v \in VmaSet : v.start <= a /\ a < v.end
                 THEN {v.id : v \in {w \in VmaSet : w.start <= a /\ a < w.end}}
                 ELSE {0}

\* C12: after read_task_vmas the VMAs of one pathname have one leader, the
\* lowest of them; VMAs of different pathnames have different leaders; and
\* the leader's sibling list holds the others by ascending file offset.
C12_Leaders ==
    (rd.called /\ rd.ret = 0 /\ ShortLines) =>
        \A v \in VmaSet :
            /\ \A w \in VmaSet : (v.name = w.name) <=> (v.leader = w.leader)
            /\ VmaOf(vmas, v.leader).name = v.name
            /\ \A w \in VmaSet : w.name = v.name => VmaOf(vmas, v.leader).start <= w.start
            /\ v.leader = v.id =>
                 /\ {v.siblings[i] : i \in 1..Len(v.siblings)} =
                        {w.id : w \in {x \in VmaSet : x.name = v.name /\ x.id # v.id}}
                 /\ \A i, j \in 1..Len(v.siblings) :
                        i < j => VmaOf(vmas, v.siblings[i]).offset
                                     < VmaOf(vmas, v.siblings[j]).offset

\* the segment of v's file that holds st_value: file_voffset <= st_value <
\* the next segment's file_voffset
HoldingSegment(v, st_value) ==
    CHOOSE g \in SegmentsOf(vmas, v) :
        /\ g.vaddr <= st_value
        /\ \A h \in SegmentsOf(vmas, v) : h.vaddr <= st_value => h.vaddr <= g.vaddr

\* C13: for a symbol of a shared-library leader task_vma_symbol_value
\* returns sibling.start + (st_value - sibling.file_voffset) for the segment
\* that holds st_value; for a symbol of the executable it returns st_value.
C13_SymbolValue ==
    (sym.called /\ rd.ret = 0 /\ ShortLines /\ VmaOf(vmas, sym.vma).leader = sym.vma) =>
        LET v == VmaOf(vmas, sym.vma)
            g == HoldingSegment(v, sym.st_value)
        IN IF is_share_lib(v.name)
           THEN sym.addr = g.start + (sym.st_value - g.vaddr)
           ELSE sym.addr = sym.st_value

\* C14: for a symbol of a shared-library leader the address returned lies in
\* [leader.start, the highest end of its segments], the subtraction
\* st_value - offset does not wrap, and the segment the address is taken
\* relative to does not start above st_value.
C14_SymbolInRange ==
    (sym.called /\ rd.ret = 0 /\ ShortLines /\ VmaOf(vmas, sym.vma).leader = sym.vma
        /\ is_share_lib(VmaOf(vmas, sym.vma).name)) =>
        LET v == VmaOf(vmas, sym.vma)
        IN /\ v.start <= sym.addr
           /\ \E g \in SegmentsOf(vmas, v) : sym.addr <= g.end
           /\ ~sym.wrapped
           /\ VmaOf(vmas, sym.seg).vaddr <= sym.st_value

\* C15: task_attach returns 0 only after PTRACE_ATTACH succeeded and waitpid
\* reported a SIGSTOP stop; every earlier wait status is answered by
\* PTRACE_CONT, with no signal after a SIGTRAP stop and with the signal s
\* after a stop with another signal s; and a failed ptrace or waitpid makes
\* it return a negative errno.
C15_TaskAttach ==
    /\ (apc = "done" /\ aret = 0) =>
           /\ Len(alog) >= 2
           /\ alog[1] = Call("PTRACE_ATTACH", TRUE, "none", "0")
           /\ alog[Len(alog)] = Call("waitpid", TRUE, "stopped", "SIGSTOP")
    /\ \A i \in 1..Len(alog) :
           (alog[i].call = "waitpid" /\ alog[i].ok /\ alog[i].kind = "stopped"
               /\ alog[i].sig # "SIGSTOP") =>
               IF i = Len(alog) THEN apc = "cont"
               ELSE /\ alog[i + 1].call = "PTRACE_CONT"
                    /\ alog[i + 1].sig =
                           IF alog[i].sig = "SIGTRAP" THEN "0" ELSE alog[i].sig
    /\ (apc = "done" /\ \E i \in 1..Len(alog) : ~alog[i].ok) =>
           /\ aret < 0
           /\ -aret \in Errnos

\* task_attach returned 0 after a SIGTRAP stop and a stop with another signal
C15_Witness ==
    /\ apc = "done" /\ aret = 0
    /\ \E i, j \in 1..Len(alog) :
         /\ alog[i] = Call("waitpid", TRUE, "stopped", "SIGTRAP")
         /\ alog[j] = Call("waitpid", TRUE, "stopped", "SIGUSR1")

\* the entries of the operation's log that are calls of what
CallsOf(what) == {i \in 1..Len(clog) : clog[i].what = what}

\* C16: in mmap_object, munmap_object, mmap_a_file and munmap_an_vma a
\* successful task_attach is followed by exactly one task_detach on every
\* return path, so that when the operation returns the target is not left
\* ptrace-stopped and holds no descriptor the operation opened.
C16_AttachDetach ==
    (cpc = "done" /\ \E i \in CallsOf("task_attach") : clog[i].ok) =>
        /\ Cardinality(CallsOf("task_detach")) = 1
        /\ traced # "stopped"
        /\ ~rfd_open

\* what changes the target's registers or instructions
Touches == {"task_open", "task_ftruncate", "task_mmap", "task_close",
            "task_munmap", "memcpy_to_task"}

\* C17: every task_syscall of the operations and the --jmp write that
\* changes the target is made while the target is ptrace-stopped: after a
\* task_attach that succeeded and before the task_detach.
C17_OnlyWhileStopped ==
    \A i \in 1..Len(clog) :
        (clog[i].what \in Touches /\ clog[i].ok) =>
            /\ clog[i].stopped
            /\ \E j \in CallsOf("task_attach") : j < i /\ clog[j].ok
            /\ \A j \in CallsOf("task_detach") : i < j

\* ---- rewriting a call site and putting it back

\* the test saved the bytes, and later wrote them back
SavedAndRestored == psteps.saved = "ok" /\ psteps.restored = "ok"

\* C18: once a test that saved the bytes of its site (MCOUNT_INSN_SIZE of
\* them, or sizeof(struct jmp_table_entry) for a jump-table entry) has
\* written them back, try_to_wake_up holds the bytes it held before the new
\* instruction was written; and the test saved as many bytes as it overwrote.
C18_InstallRestore ==
    /\ SavedAndRestored => text = pre_text
    /\ psteps.saved = "ok" /\ psteps.wrote = "ok"
           => psteps.nsaved = psteps.nwrote

\* a jump-table entry was written over the entry of try_to_wake_up, ran, and
\* was taken away again
C18_Witness ==
    /\ ptest = "direct_jmp_table"
    /\ SavedAndRestored /\ psteps.wrote = "ok"
    /\ pcall.at = "test" /\ pcall.text # text
    /\ text = pre_text

\* the last call of try_to_wake_up ran with the rewrite of the given test in
\* place: written, and not taken away since
Installed(test) ==
    /\ ptest = test
    /\ pcall.at \in {"test", "later"}
    /\ psteps.wrote = "ok"
    /\ psteps.restored # "ok"

HighBits(a) == a[3] # 0 \/ a[4] # 0

\* E8, or E9, followed by the displacement as a little-endian 32-bit value
Rel32Insn(opcode, ip, target) == <<opcode>> \o LE32(Displacement(ip, target))

EncoderRan == enc.who \in {"ftrace_call_replace", "ulpatch_jmpq_replace"}

TestRan == enc.who \in {"direct_patch_ftrace_test", "direct_jmp"}

OpcodeOf(who) ==
    IF who \in {"ftrace_call_replace", "direct_patch_ftrace_test"}
    THEN CALL_INSN_OPCODE ELSE JMP32_INSN_OPCODE

\* the encoder gives the instruction exactly when the displacement
\* target - (ip + 5) is a signed 32-bit value, and nothing otherwise
ByDisplacement ==
    IF FitsS32(Displacement(enc.ip, enc.target))
    THEN enc.out = Rel32Insn(OpcodeOf(enc.who), enc.ip, enc.target)
    ELSE enc.out = NoInsn

MapOps == {"mmap_object", "mmap_a_file"}

\* C22: a task_munmap that is given the range of a mapping leaves the
\* target without it; munmap_object unmaps the address and the length that
\* mmap_object mapped; munmap_an_vma unmaps from the start of the VMA that
\* contains the given address.
C22_MapUnmap ==
    (cpc = "done" /\ unmap.ran) =>
        /\ cop = "munmap_object" =>
               /\ Mapping(unmap.addr, unmap.len) \in unmap.before
               /\ tmaps = unmap.before \ {Mapping(unmap.addr, unmap.len)}
        /\ cop = "munmap_an_vma" =>
               /\ \E m \in VmasAt(unmap.before, unmap.vma_addr) :
                      unmap.addr = m.addr
               /\ Mapping(unmap.addr, unmap.len) \in unmap.before
                      => tmaps = unmap.before
                                     \ {Mapping(unmap.addr, unmap.len)}

\* C29: mmap_object and mmap_a_file return 0 only when the file is mapped in
\* the target, and a non-zero value when the attach, the remote open, the
\* remote ftruncate or the remote mmap failed.
C29_MapFailureReported ==
    (cpc = "done" /\ cop \in MapOps) => (cret = 0 => cmapped)

\* C30: a memcpy_to_task that did not write the whole jump-table entry,
\* whatever it returned, makes the --jmp branch of ultask return -1.
C30_JmpWriteFailure ==
    (cpc = "done" /\ cop = "jmp" /\ wres.n # insn_sz) => cret = -1

\* C23: when SIGINT ends the controller between task_syscall's write of the
\* syscall instruction and its restore step, the target's registers and the
\* scratch bytes at libc-base are back at their values from before the call.
C23_SigintRestores ==
    pc = "killed" => (tregs = pre_regs /\ tmem = pre_mem)

\* C27: wait_for_stop returns 0 only after waitpid reported a stop with
\* SIGSTOP or SIGTRAP; a stop with SIGSEGV makes it return -1 at once, with no
\* further PTRACE_CONT; a stop with any other signal is followed by a
\* PTRACE_CONT that delivers that signal; a failing PTRACE_CONT or waitpid
\* makes it return -1; and it returns once the target stops with SIGSTOP,
\* SIGTRAP or SIGSEGV or is gone.
IsStop(e, sigs) == e.call = "waitpid" /\ e.ok /\ e.kind = "stopped" /\ e.sig \in sigs

C27_Safety ==
    /\ wlog # <<>> => wlog[1].call = "PTRACE_CONT" /\ wlog[1].sig = NoSignal
    /\ (wpc = "done" /\ wsret = 0) =>
          /\ wlog # <<>>
          /\ IsStop(wlog[Len(wlog)], {"SIGSTOP", "SIGTRAP"})
    /\ \A i \in 1..Len(wlog) :
          /\ IsStop(wlog[i], {"SIGSEGV"}) =>
                i = Len(wlog) /\ wpc = "done" /\ wsret = -1
          /\ IsStop(wlog[i], OtherSignals) =>
                IF i < Len(wlog)
                THEN wlog[i + 1].call = "PTRACE_CONT" /\ wlog[i + 1].sig = wlog[i].sig
                ELSE wpc = "cont" /\ wstatus = wlog[i].sig
          /\ ~wlog[i].ok => i = Len(wlog) /\ wpc = "done" /\ wsret = -1

C27_WaitForStop == []C27_Safety /\ <>(wpc = "done")

\* wait_for_stop returned 0 after it passed a signal on to the target
C27_Witness ==
    /\ wpc = "done" /\ wsret = 0
    /\ \E i \in 1..Len(wlog) : IsStop(wlog[i], OtherSignals)

\* C28: a task_open whose flags have no O_CREAT hands the remote open the
\* canonical name of pathname (readlink, then realpath), returns -1 with no
\* remote syscall when there is none, and frees the allocation it made with
\* the address and the length of that allocation.
C28_TaskOpen ==
    (opc = "done" /\ BitAnd(oin.flags, O_CREAT) = 0) =>
       IF canonical(oin.pathname) = NoPath
       THEN oret = -1 /\ olog = <<>>
       ELSE /\ Len(olog) = 3
            /\ olog[2].nr = NR_open
            /\ oaddr \in ScratchAddrs => olog[2].path = canonical(oin.pathname)
            /\ olog[3] = ORemote(NR_munmap, olog[1].addr, olog[1].len, NoPath, 0)

\* vma_peek_phdr ran on an image with a valid header, at least one program
\* header and a PT_LOAD among them, and both reads were complete
PeekedElf ==
    /\ pk_pc = "done" /\ pk_vma.magic /\ pk_vma.e_phnum > 0
    /\ pk_vma.type \notin {"VMA_VVAR", "VMA_STACK", "VMA_VSYSCALL"}
    /\ \E i \in DOMAIN pk_vma.phdrs : pk_vma.phdrs[i].p_type = "PT_LOAD"
    /\ pk_read = [n1 |-> sizeof_ehdr, n2 |-> pk_vma.e_phnum * sizeof_phdr]

\* the VMA's file is libc, libpthread, libdl or libssp
IsInterpLib(name) ==
    \E l \in {"libc", "libpthread", "libdl", "libssp"} :
        /\ strncmp0(basename(name), l)
        /\ Len(basename(name)) > Len(l)
        /\ SubSeq(basename(name), Len(l) + 1, Len(l) + 1) \in {".", "-"}

\* C24: after vma_peek_phdr on such an image, is_share_lib is true exactly
\* when e_type is ET_DYN and there is no PT_INTERP or the file is libc,
\* libpthread, libdl or libssp, whatever the file is called.
C24_ShareLib ==
    PeekedElf =>
      (pk_out.is_share_lib <=>
         /\ pk_vma.e_type = "ET_DYN"
         /\ \/ \A i \in DOMAIN pk_vma.phdrs : pk_vma.phdrs[i].p_type # "PT_INTERP"
            \/ IsInterpLib(pk_vma.name))

\* C25: after vma_peek_phdr on a leader, load_offset is the leader's start
\* minus the smallest p_vaddr of the PT_LOAD headers, and the voffset of every
\* sibling is the p_vaddr of the PT_LOAD whose p_offset, rounded down to
\* p_align, is the sibling's file offset.
C25_LoadOffsets ==
    PeekedElf =>
      /\ \E i \in DOMAIN pk_vma.phdrs :
            /\ pk_vma.phdrs[i].p_type = "PT_LOAD"
            /\ pk_out.load_offset = pk_vma.start - pk_vma.phdrs[i].p_vaddr
            /\ \A j \in DOMAIN pk_vma.phdrs :
                  pk_vma.phdrs[j].p_type = "PT_LOAD" =>
                     pk_vma.phdrs[i].p_vaddr <= pk_vma.phdrs[j].p_vaddr
      /\ \A o \in SiblingOffsets :
         \A i \in DOMAIN pk_vma.phdrs :
            (/\ pk_vma.phdrs[i].p_type = "PT_LOAD"
             /\ ALIGN_DOWN(pk_vma.phdrs[i].p_offset, pk_vma.phdrs[i].p_align) = o)
              => pk_out.voffset[o] = pk_vma.phdrs[i].p_vaddr

\* C26: once the symbols of every VMA are loaded, the tree holds at most one
\* symbol per name, and that one is the first that was handed to
\* task_vma_link_symbol with the name; it holds no undefined symbol and no
\* symbol with an empty name; and a VMA whose DT_SYMENT is not sizeof(Sym)
\* has no symbol in it.
C26_SymbolTree ==
    sy_i = Len(sy_vmas) =>
      /\ \A a, b \in sy_tree : a.name = b.name => a = b
      /\ \A a \in sy_tree :
            \E i \in DOMAIN sy_log :
               /\ sy_log[i] = a
               /\ \A j \in 1..(i - 1) : sy_log[j].name # a.name
      /\ \A a \in sy_tree : ~a.undef /\ a.name # ""
      /\ \A a \in sy_tree : sy_vmas[a.vma].dyn # "bad_syment"

\* what the round trip of init_patch and delete_patch comes to
RoundTrip ==
    /\ \A i \in DOMAIN ld_rets : ld_rets[i] = 0
    /\ ld_maps = {}
    /\ ld_log = [i \in DOMAIN ld_hist.infos |->
                   Mapping(ld_hist.infos[Len(ld_hist.infos) + 1 - i].target_hdr,
                           ld_hist.infos[Len(ld_hist.infos) + 1 - i].len)]
    /\ ld_staged = {}
    /\ ld_pc \in {"waited", "freed"} => ld_status = 0
    /\ ld_pc = "freed" => ld_dir = NoDir

====
